---------------------------- MODULE Spec2Model ----------------------------
(***************************************************************************)
(* Model of trainme: the workout model and its Garmin wire codec, the      *)
(* workout registry behind the create_workouts tool, the tool-calling      *)
(* chat loop of the Claude client, chat_complete and its continuation      *)
(* heuristic, and the create_workouts tool of the MCP server.  Each part   *)
(* has its own specification over the same variables: SpecRegistry,        *)
(* SpecSnapshot, Spec, SpecReturning, SpecComplete, SpecContinuation,      *)
(* SpecInsistent, SpecCodec, SpecDecode, SpecTargets, SpecHeuristic,       *)
(* SpecMcp.                                                                *)
(*                                                                         *)
(* Conventions.  A Python dict is a sequence of <<key, value>> pairs in    *)
(* insertion order.  A call that can raise returns [raised |-> TRUE,       *)
(* error |-> e] or [raised |-> FALSE, value |-> v].  A Python object with  *)
(* optional keys is a function whose DOMAIN holds the keys present.        *)
(* Speeds are integers in units of 1e-5 m/s, so mph * 0.44704 is exact.    *)
(* Texts are sequences of one-character strings.                           *)
(***************************************************************************)
EXTENDS Integers, Sequences, FiniteSets, TLC

VARIABLES
    workouts,              \* Claude.workouts: the registry, name -> RunWorkout
    lastCall,              \* the last tool handler call: its input and outcome
    conversation_history,  \* Claude.conversation_history
    chat_response,         \* chat's local chat_response
    response,              \* chat's local response (the model's last answer)
    tool_idx,              \* position of the second pass in tool_uses
    tool_results,          \* chat's local tool_results
    pc,                    \* where chat stands
    chat_return,           \* what the last chat call returned
    queries,               \* number of model calls made so far
    codec,                 \* the codec round trip: workout, wire map, decoded
    heur,                  \* the continuation heuristic: text and verdict
    complete,              \* chat_complete: its locals and what it returned
    target,                \* an intensity target construction and its outcome
    snapshot,              \* the mapping a get_workouts caller holds
    mcp                    \* the MCP server's create_workouts call

vars == <<workouts, lastCall, conversation_history, chat_response, response,
          tool_idx, tool_results, pc, chat_return, queries, codec, heur,
          complete, target, snapshot, mcp>>

chatVars == <<conversation_history, chat_response, response, tool_idx,
              tool_results, pc, chat_return, queries>>

-----------------------------------------------------------------------------
(* Bounds of the model.                                                    *)

\* longest "workouts" list of one create_workouts payload
MaxBatch == 3
\* number of model calls in one run of the chat loop model
MaxQueries == 2
\* steps of a workout given to the codec
MaxSteps == 2
\* words of a text given to the continuation heuristic
MaxWords == 3
\* largest of the small bounds given to the intensity target constructors
MaxBound == 7
\* number of model calls in a run against a model that never lets go
MaxRounds == 12
\* number of model calls in a run of chat_complete over text answers
MaxTurns == 4
\* longest list of workouts given to the MCP server's create_workouts
MaxUpload == 3

-----------------------------------------------------------------------------
(* Python values.                                                          *)

None == "None"

Raise(e) == [raised |-> TRUE, error |-> e]

Ok(v) == [raised |-> FALSE, value |-> v]

\* key in d
DictHas(d, k) == \E i \in 1..Len(d) : d[i][1] = k

\* d[key] of a key that is present
DictGet(d, k) == d[CHOOSE i \in 1..Len(d) : d[i][1] = k][2]

\* d[key] = v: rebinding keeps the key's place, a new key goes last
DictSet(d, k, v) ==
    IF DictHas(d, k)
    THEN [i \in 1..Len(d) |-> IF d[i][1] = k THEN <<k, v>> ELSE d[i]]
    ELSE Append(d, <<k, v>>)

\* list(d.keys())
DictKeys(d) == [i \in 1..Len(d) |-> d[i][1]]

\* list(d.values())
DictValues(d) == [i \in 1..Len(d) |-> d[i][2]]

\* x in list
InList(x, s) == \E i \in 1..Len(s) : s[i] = x

-----------------------------------------------------------------------------
(* garmin/models/workout.py: the workout model.                            *)

\* StepType: name -> (key, id, display order)
StepTypeValue ==
    ("WARMUP" :> <<"warmup", 1, 1>>) @@ ("COOLDOWN" :> <<"cooldown", 2, 2>>) @@
    ("INTERVAL" :> <<"interval", 3, 3>>) @@ ("RECOVERY" :> <<"recovery", 4, 4>>) @@
    ("REST" :> <<"rest", 5, 5>>) @@ ("OTHER" :> <<"other", 7, 7>>)

StepTypeNames == DOMAIN StepTypeValue

\* EndConditionType: name -> (key, id, display order)
EndConditionTypeValue ==
    [LAP_BUTTON |-> <<"lap.button", 1, 1>>,
     TIME       |-> <<"time", 2, 2>>,
     DISTANCE   |-> <<"distance", 3, 3>>,
     CALORIES   |-> <<"calories", 4, 4>>]

EndConditionTypeNames == DOMAIN EndConditionTypeValue

\* SportType.RUNNING
SportTypeRunning == <<"running", 1, 1>>

\* EndCondition(condition_type, value, displayable=True)
EndCondition(condition_type, value, displayable) ==
    [condition_type |-> condition_type, value |-> value,
     displayable |-> displayable]

\* NoTarget()
NoTarget == [target_type |-> "no_target"]

\* CadenceTarget with a check that lets equal bounds through
CadenceTargetEqualAllowed(lower_bound, upper_bound) ==
    IF lower_bound > upper_bound
    THEN Raise("ValueError")
    ELSE Ok([target_type |-> "cadence", lower_bound |-> lower_bound,
             upper_bound |-> upper_bound, target_value_unit |-> None])

\* CadenceTarget(lower_bound, upper_bound): model_post_init rejects lower >= upper
CadenceTarget(lower_bound, upper_bound) ==
    IF lower_bound >= upper_bound
    THEN Raise("ValueError")
    ELSE Ok([target_type |-> "cadence", lower_bound |-> lower_bound,
             upper_bound |-> upper_bound, target_value_unit |-> None])

\* HeartRateZoneTarget(zone_number): the field carries a description only
HeartRateZoneTarget(zone_number) ==
    Ok([target_type |-> "heart_rate_zone", zone_number |-> zone_number,
        target_value_unit |-> None])

\* PaceZoneTarget(lower_bound, upper_bound): model_post_init rejects lower < upper
PaceZoneTarget(lower_bound, upper_bound) ==
    IF lower_bound < upper_bound
    THEN Raise("ValueError")
    ELSE Ok([target_type |-> "pace_zone", lower_bound |-> lower_bound,
             upper_bound |-> upper_bound, target_value_unit |-> None])

\* WorkoutStep(step_order, step_type, end_condition, intensity)
WorkoutStep(step_order, step_type, end_condition, intensity) ==
    [step_order |-> step_order, step_type |-> step_type,
     end_condition |-> end_condition, intensity |-> intensity]

\* WorkoutSegment(segment_order, sport_type, workout_steps)
WorkoutSegment(segment_order, sport_type, workout_steps) ==
    [segment_order |-> segment_order, sport_type |-> sport_type,
     workout_steps |-> workout_steps]

\* RunWorkout(workout_name, workout_segments), is_wheelchair defaulting to False
RunWorkout(workout_name, workout_segments, is_wheelchair) ==
    [workout_name |-> workout_name, workout_segments |-> workout_segments,
     is_wheelchair |-> is_wheelchair]

-----------------------------------------------------------------------------
(* customclaudeclient/create_workout_tool.py: the create_workouts tool.    *)

\* 0.44704 m/s per mph, in units of 1e-5 m/s
MpsPerMph == 44704

\* step_data[key], a KeyError when the key is absent
Item(step_data, key) ==
    IF key \in DOMAIN step_data THEN Ok(step_data[key]) ELSE Raise("KeyError")

\* the intensity target of one step with the pace bounds passed on unswapped
ConstructIntensityUnswapped(step_data) ==
    LET target_type == step_data["target_type"] IN
    IF target_type = "no_target" THEN Ok(NoTarget)
    ELSE IF target_type = "heart_rate_zone" THEN
        LET z == Item(step_data, "zone_number") IN
        IF z.raised THEN z ELSE HeartRateZoneTarget(z.value)
    ELSE IF target_type = "cadence_range" THEN
        LET l == Item(step_data, "target_lower_bound")
            u == Item(step_data, "target_upper_bound") IN
        IF l.raised THEN l ELSE IF u.raised THEN u
        ELSE CadenceTarget(l.value, u.value)
    ELSE IF target_type = "pace_range" THEN
        LET l == Item(step_data, "target_lower_bound")
            u == Item(step_data, "target_upper_bound") IN
        IF l.raised THEN l ELSE IF u.raised THEN u
        ELSE LET lower_bound_ms == l.value * MpsPerMph
                 upper_bound_ms == u.value * MpsPerMph
             IN  PaceZoneTarget(lower_bound_ms, upper_bound_ms)
    ELSE Ok(NoTarget)

\* the intensity target of one step of the payload
ConstructIntensity(step_data) ==
    LET target_type == step_data["target_type"] IN
    IF target_type = "no_target" THEN Ok(NoTarget)
    ELSE IF target_type = "heart_rate_zone" THEN
        LET z == Item(step_data, "zone_number") IN
        IF z.raised THEN z ELSE HeartRateZoneTarget(z.value)
    ELSE IF target_type = "cadence_range" THEN
        LET l == Item(step_data, "target_lower_bound")
            u == Item(step_data, "target_upper_bound") IN
        IF l.raised THEN l ELSE IF u.raised THEN u
        ELSE CadenceTarget(l.value, u.value)
    ELSE IF target_type = "pace_range" THEN
        LET l == Item(step_data, "target_lower_bound")
            u == Item(step_data, "target_upper_bound") IN
        IF l.raised THEN l ELSE IF u.raised THEN u
        ELSE LET lower_bound_ms == l.value * MpsPerMph
                 upper_bound_ms == u.value * MpsPerMph
             IN  PaceZoneTarget(upper_bound_ms, lower_bound_ms)
    ELSE Ok(NoTarget)

\* StepType[step_data["step_type"].upper()]
StepTypeByName(step_type) ==
    LET upper == CHOOSE n \in StepTypeNames \cup {"?"} :
                     \/ n \in StepTypeNames /\ StepTypeValue[n][1] = step_type
                     \/ n = "?" /\ \A m \in StepTypeNames :
                                       StepTypeValue[m][1] # step_type
    IN  IF upper = "?" THEN Raise("KeyError") ELSE Ok(upper)

\* the loop body with the steps numbered from 0, as enumerate(steps) does
ConstructStepFromZero(i, step_data) ==
    LET intensity == ConstructIntensity(step_data) IN
    IF intensity.raised THEN intensity
    ELSE LET step_type == StepTypeByName(step_data["step_type"]) IN
         IF step_type.raised THEN step_type
         ELSE Ok(WorkoutStep(i - 1, step_type.value,
                             EndCondition("TIME",
                                          step_data["duration_minutes"] * 60,
                                          TRUE),
                             intensity.value))

\* one pass of the loop over tool_output["steps"]: the step at position i
ConstructStep(i, step_data) ==
    LET intensity == ConstructIntensity(step_data) IN
    IF intensity.raised THEN intensity
    ELSE LET step_type == StepTypeByName(step_data["step_type"]) IN
         IF step_type.raised THEN step_type
         ELSE Ok(WorkoutStep(i, step_type.value,
                             EndCondition("TIME",
                                          step_data["duration_minutes"] * 60,
                                          TRUE),
                             intensity.value))

\* a list built from its head and its tail, the first exception winning
Cons(head, rest) ==
    IF head.raised THEN head
    ELSE IF rest.raised THEN rest ELSE Ok(<<head.value>> \o rest.value)

RECURSIVE ConstructSteps(_, _)
\* the loop over tool_output["steps"], from position i on
ConstructSteps(steps, i) ==
    IF i > Len(steps) THEN Ok(<<>>)
    ELSE Cons(ConstructStep(i, steps[i]), ConstructSteps(steps, i + 1))

\* _construct_run_workout(tool_output)
ConstructRunWorkout(tool_output) ==
    LET workout_steps == ConstructSteps(tool_output["steps"], 1) IN
    IF workout_steps.raised THEN workout_steps
    ELSE Ok(RunWorkout(tool_output["workout_name"],
                       <<WorkoutSegment(1, SportTypeRunning,
                                        workout_steps.value)>>,
                       FALSE))

RECURSIVE ConstructAll(_, _)
\* the loop over tool_use.input["workouts"], from position i on
ConstructAll(workouts_data, i) ==
    IF i > Len(workouts_data) THEN Ok(<<>>)
    ELSE Cons(ConstructRunWorkout(workouts_data[i]),
              ConstructAll(workouts_data, i + 1))

\* the workouts handle_create_workouts_tool extracts from tool_use
ExtractWorkouts(tool_use) ==
    IF "workouts" \in DOMAIN tool_use.input
    THEN ConstructAll(tool_use.input["workouts"], 1)
    ELSE Ok(<<>>)

RECURSIVE InsertBatchOverwrite(_, _, _, _, _)
\* the duplicate check with the store rebound for a duplicate name as well
InsertBatchOverwrite(current_use_workouts, i, stored, duplicate_names, valid_workouts) ==
    IF i > Len(current_use_workouts)
    THEN [stored_workouts |-> stored, duplicate_names |-> duplicate_names,
          valid_workouts |-> valid_workouts]
    ELSE LET workout == current_use_workouts[i] IN
         IF DictHas(stored, workout.workout_name)
         THEN InsertBatchOverwrite(current_use_workouts, i + 1,
                          DictSet(stored, workout.workout_name, workout),
                          Append(duplicate_names, workout.workout_name),
                          valid_workouts)
         ELSE InsertBatchOverwrite(current_use_workouts, i + 1,
                          DictSet(stored, workout.workout_name, workout),
                          duplicate_names, Append(valid_workouts, workout))

RECURSIVE InsertBatchAllOrNothing(_, _, _, _, _)
\* the duplicate check with nothing stored once a duplicate was met
InsertBatchAllOrNothing(current_use_workouts, i, stored, duplicate_names, valid_workouts) ==
    IF i > Len(current_use_workouts)
    THEN [stored_workouts |-> stored, duplicate_names |-> duplicate_names,
          valid_workouts |-> valid_workouts]
    ELSE LET workout == current_use_workouts[i] IN
         IF DictHas(stored, workout.workout_name)
         THEN InsertBatchAllOrNothing(current_use_workouts, i + 1, stored,
                          Append(duplicate_names, workout.workout_name),
                          valid_workouts)
         ELSE InsertBatchAllOrNothing(current_use_workouts, i + 1,
                          IF duplicate_names = <<>>
                          THEN DictSet(stored, workout.workout_name, workout)
                          ELSE stored,
                          duplicate_names, Append(valid_workouts, workout))

RECURSIVE InsertBatch(_, _, _, _, _)
\* the duplicate check: the loop over current_use_workouts, from position i on
InsertBatch(current_use_workouts, i, stored, duplicate_names, valid_workouts) ==
    IF i > Len(current_use_workouts)
    THEN [stored_workouts |-> stored, duplicate_names |-> duplicate_names,
          valid_workouts |-> valid_workouts]
    ELSE LET workout == current_use_workouts[i] IN
         IF DictHas(stored, workout.workout_name)
         THEN InsertBatch(current_use_workouts, i + 1, stored,
                          Append(duplicate_names, workout.workout_name),
                          valid_workouts)
         ELSE InsertBatch(current_use_workouts, i + 1,
                          DictSet(stored, workout.workout_name, workout),
                          duplicate_names, Append(valid_workouts, workout))

\* the tool result handle_create_workouts_tool builds from the duplicate check
CreateWorkoutsResult(tool_use, duplicate_names, valid_workouts) ==
    IF duplicate_names # <<>>
    THEN [type |-> "tool_result", tool_use_id |-> tool_use.id,
          content |-> [text |-> "Error: Workout names must be unique",
                       names |-> duplicate_names, listed |-> <<>>],
          is_error |-> TRUE, workouts |-> <<>>]
    ELSE [type |-> "tool_result", tool_use_id |-> tool_use.id,
          content |-> [text |-> "workouts", names |-> <<>>,
                       listed |-> valid_workouts],
          workouts |-> valid_workouts]

\* handle_create_workouts_tool(tool_use, stored_workouts): the result or the
\* exception, and the store as the call leaves it
HandleCreateWorkoutsTool(tool_use, stored_workouts) ==
    LET current_use_workouts == ExtractWorkouts(tool_use) IN
    IF current_use_workouts.raised
    THEN [raised |-> TRUE, error |-> current_use_workouts.error,
          stored_workouts |-> stored_workouts]
    ELSE LET checked == InsertBatch(current_use_workouts.value, 1,
                                    stored_workouts, <<>>, <<>>)
         IN  [raised |-> FALSE,
              result |-> CreateWorkoutsResult(tool_use, checked.duplicate_names,
                                              checked.valid_workouts),
              stored_workouts |-> checked.stored_workouts]

-----------------------------------------------------------------------------
(* Payloads of the create_workouts tool, as the language model sends them. *)

\* a step of the payload with its three required keys
StepData(step_type, duration_minutes, target_type) ==
    [step_type |-> step_type, duration_minutes |-> duration_minutes,
     target_type |-> target_type]

\* the optional bounds of a cadence_range or pace_range step
Bounds(l, u) == [target_lower_bound |-> l, target_upper_bound |-> u]

PayloadA ==
    [workout_name |-> "A",
     steps |-> <<StepData("warmup", 10, "no_target")>>]

\* another workout under the name of PayloadA
PayloadA2 ==
    [workout_name |-> "A",
     steps |-> <<StepData("interval", 30, "heart_rate_zone")
                 @@ [zone_number |-> 3]>>]

PayloadB ==
    [workout_name |-> "B",
     steps |-> <<StepData("warmup", 10, "no_target"),
                 StepData("interval", 20, "pace_range") @@ Bounds(6, 7),
                 StepData("cooldown", 5, "cadence_range") @@ Bounds(160, 180)>>]

\* a cadence range with lower >= upper: CadenceTarget rejects it
PayloadBad ==
    [workout_name |-> "C",
     steps |-> <<StepData("interval", 20, "cadence_range")
                 @@ Bounds(180, 160)>>]

Payloads == {PayloadA, PayloadA2, PayloadB, PayloadBad}

\* lists of at most n payloads
PayloadLists(n) == UNION {[1..k -> Payloads] : k \in 0..n}

\* a tool_use block of the model's response
ToolUse(id, name, input) ==
    [type |-> "tool_use", id |-> id, name |-> name, input |-> input]

\* the create_workouts invocations given to the handler on its own
CreateToolUses ==
    {ToolUse("tu1", "create_workouts", [workouts |-> b]) :
        b \in PayloadLists(MaxBatch)}
    \cup {ToolUse("tu1", "create_workouts", [note |-> "no workouts key"])}

-----------------------------------------------------------------------------
(* The state after construction (Claude.__init__).                         *)

NoCall == [kind |-> "none"]

NoResponse == [content |-> <<>>, stop_reason |-> None]

Init ==
    /\ workouts = <<>>
    /\ lastCall = NoCall
    /\ conversation_history = <<>>
    /\ chat_response = <<>>
    /\ response = NoResponse
    /\ tool_idx = 0
    /\ tool_results = <<>>
    /\ pc = "AwaitingUser"
    /\ chat_return = None
    /\ queries = 0
    /\ codec = [stage |-> "none"]
    /\ heur = [stage |-> "none"]
    /\ complete = [stage |-> "none"]
    /\ target = [stage |-> "none"]
    /\ snapshot = [ref |-> "none", items |-> <<>>]
    /\ mcp = [stage |-> "none"]

-----------------------------------------------------------------------------
(* The registry under the create_workouts handler alone.                   *)

\* handle_create_workouts_tool(tool_use, self.workouts)
CallCreateWorkouts(tool_use) ==
    LET out == HandleCreateWorkoutsTool(tool_use, workouts)
    IN  /\ workouts' = out.stored_workouts
        /\ lastCall' = [kind |-> "create_workouts", tool_use |-> tool_use,
                        before |-> workouts, out |-> out]
        /\ UNCHANGED <<chatVars, codec, heur, snapshot, mcp, complete, target>>

NextRegistry == \E tool_use \in CreateToolUses : CallCreateWorkouts(tool_use)

SpecRegistry == Init /\ [][NextRegistry]_vars

\* the last call was a create_workouts call that returned a tool result
CreateReturned == lastCall.kind = "create_workouts" /\ ~lastCall.out.raised

\* the workouts the last create_workouts call built from its payload
Candidates == ExtractWorkouts(lastCall.tool_use).value

\* position of the first candidate of the last call that bears this name
FirstNamed(name) ==
    CHOOSE i \in 1..Len(Candidates) :
        /\ Candidates[i].workout_name = name
        /\ \A j \in 1..(i - 1) : Candidates[j].workout_name # name

\* candidate i of the last call met its name in the registry
MetItsName(i) ==
    \/ DictHas(lastCall.before, Candidates[i].workout_name)
    \/ \E j \in 1..(i - 1) : Candidates[j].workout_name
                                 = Candidates[i].workout_name

(* C1: the registry holds at most one workout per name; a create_workouts   *)
(* call leaves every entry it found in place with the workout it had; a     *)
(* candidate that met its name in the registry (from an earlier call or an  *)
(* earlier candidate of the batch) is not stored, the entry keeps the       *)
(* workout stored first, and its name is among the reported duplicates.     *)
C1_UniqueNeverReplaced ==
    /\ \A i, j \in 1..Len(workouts) :
           workouts[i][1] = workouts[j][1] => i = j
    /\ \A i \in 1..Len(workouts) : workouts[i][2].workout_name = workouts[i][1]
    /\ lastCall.kind = "create_workouts" =>
           /\ Len(lastCall.before) <= Len(workouts)
           /\ \A i \in 1..Len(lastCall.before) : workouts[i] = lastCall.before[i]
    /\ CreateReturned =>
           \A i \in 1..Len(Candidates) :
               LET name == Candidates[i].workout_name IN
               MetItsName(i) =>
                   /\ InList(name, lastCall.out.result.content.names)
                   /\ DictGet(workouts, name) =
                          IF DictHas(lastCall.before, name)
                          THEN DictGet(lastCall.before, name)
                          ELSE Candidates[FirstNamed(name)]

\* a call met a stored name with a different workout, and one with a name
\* that an earlier candidate of the same batch had just stored
C1_Witness ==
    /\ CreateReturned
    /\ \E i \in 1..Len(Candidates) :
           /\ DictHas(lastCall.before, Candidates[i].workout_name)
           /\ DictGet(lastCall.before, Candidates[i].workout_name)
                  # Candidates[i]
    /\ \E i \in 1..Len(Candidates) :
           /\ ~DictHas(lastCall.before, Candidates[i].workout_name)
           /\ MetItsName(i)

(* C2: partial success: a create_workouts call stores every candidate whose *)
(* name was not in the registry, also when the batch holds duplicates.      *)
C2_NonDuplicatesInserted ==
    CreateReturned =>
        \A i \in 1..Len(Candidates) :
            LET name == Candidates[i].workout_name IN
            ~DictHas(lastCall.before, name) =>
                /\ DictHas(workouts, name)
                /\ DictGet(workouts, name) = Candidates[FirstNamed(name)]

\* a batch with a duplicate ahead of a new name, the new name stored
C2_Witness ==
    /\ CreateReturned
    /\ \E i, j \in 1..Len(Candidates) :
           /\ i < j
           /\ DictHas(lastCall.before, Candidates[i].workout_name)
           /\ ~MetItsName(j)
           /\ DictHas(workouts, Candidates[j].workout_name)

\* the last call was given [A, B, A'] with A stored before and B new
MixedBatch ==
    /\ CreateReturned
    /\ Len(Candidates) = 3
    /\ Candidates[1].workout_name = Candidates[3].workout_name
    /\ Candidates[2].workout_name # Candidates[1].workout_name
    /\ DictHas(lastCall.before, Candidates[1].workout_name)
    /\ ~DictHas(lastCall.before, Candidates[2].workout_name)

(* C3: a batch [A, B, A'] with A stored before yields accepted = [B] and    *)
(* duplicates = [A.name]: the record lists the workouts the call stored and *)
(* names A once.                                                            *)
C3_MixedBatchResult ==
    MixedBatch =>
        /\ lastCall.out.result.workouts = <<Candidates[2]>>
        /\ lastCall.out.result.content.names
               = <<Candidates[1].workout_name>>

(* C9: create_workouts always returns a tool result carrying the            *)
(* invocation's id: success content listing the accepted workouts when no   *)
(* candidate is a duplicate, else an error naming all duplicate names.      *)
C9_AlwaysReturnsResult ==
    lastCall.kind = "create_workouts" =>
        /\ ~lastCall.out.raised
        /\ lastCall.out.result.tool_use_id = lastCall.tool_use.id
        /\ IF \E i \in 1..Len(Candidates) : MetItsName(i)
           THEN /\ "is_error" \in DOMAIN lastCall.out.result
                /\ \A i \in 1..Len(Candidates) :
                       MetItsName(i) =>
                           InList(Candidates[i].workout_name,
                                  lastCall.out.result.content.names)
           ELSE /\ "is_error" \notin DOMAIN lastCall.out.result
                /\ lastCall.out.result.content.listed = Candidates

-----------------------------------------------------------------------------
(* claude/retrieve_garmin_workouts_tool.py and                             *)
(* custom-claude-client/retrieve_proposed_workouts_tool.py: the read-only  *)
(* tools.  A call of the Garmin client is an outcome the collaborator      *)
(* chooses: a value, or an exception.                                      *)

\* what garmin_client.get_workouts can do: no workout, some, or raise
GetWorkoutsOutcomes ==
    {Ok(<<>>), Ok(<<"overview">>), Raise("GarminConnectConnectionError")}

\* what garmin_client.get_workout_by_id can do: a workout, or raise
GetWorkoutByIdOutcomes == {Ok("detail"), Raise("GarminConnectConnectionError")}

\* inputs.get(key, default)
Get(inputs, key, default) ==
    IF key \in DOMAIN inputs THEN inputs[key] ELSE default

\* the one text block a Garmin tool result carries
TextContent(text, detail) ==
    <<[type |-> "text", text |-> [text |-> text, detail |-> detail]]>>

\* handle_retrieve_garmin_workouts_tool(tool_use, garmin_client)
HandleRetrieveGarminWorkoutsTool(tool_use, outcome) ==
    IF outcome.raised
    THEN [raised |-> FALSE,
          result |-> [tool_use_id |-> tool_use.id,
                      content |-> TextContent("Error retrieving workouts from Garmin Connect",
                                              outcome.error)]]
    ELSE [raised |-> FALSE,
          result |-> [tool_use_id |-> tool_use.id,
                      content |-> IF outcome.value = <<>>
                                  THEN TextContent("No workouts found in Garmin Connect.", <<>>)
                                  ELSE TextContent("Retrieved workouts from Garmin Connect",
                                                   outcome.value)]]

\* handle_retrieve_garmin_workout_details_tool(tool_use, garmin_client)
HandleRetrieveGarminWorkoutDetailsTool(tool_use, outcome) ==
    LET workout_id == Get(tool_use.input, "workout_id", 0) IN
    IF workout_id = 0
    THEN [raised |-> FALSE,
          result |-> [tool_use_id |-> tool_use.id,
                      content |-> TextContent("Error: workout_id is required", None)]]
    ELSE IF outcome.raised
    THEN [raised |-> FALSE,
          result |-> [tool_use_id |-> tool_use.id,
                      content |-> TextContent("Error retrieving workout details from Garmin Connect",
                                              outcome.error)]]
    ELSE [raised |-> FALSE,
          result |-> [tool_use_id |-> tool_use.id,
                      content |-> TextContent("detail", outcome.value)]]

\* handle_retrieve_workouts_tool with the emptiness test off by one: a
\* registry of one workout is reported as empty
HandleRetrieveWorkoutsToolOffByOne(tool_use, stored_workouts) ==
    [raised |-> FALSE,
     result |-> [type |-> "tool_result", tool_use_id |-> tool_use.id,
                 content |-> IF Len(stored_workouts) <= 1
                             THEN [text |-> "No workouts have been created yet.",
                                   count |-> 0, listed |-> <<>>]
                             ELSE [text |-> "created total.",
                                   count |-> Len(stored_workouts),
                                   listed |-> DictValues(stored_workouts)]]]

\* handle_retrieve_workouts_tool(tool_use, stored_workouts)
HandleRetrieveWorkoutsTool(tool_use, stored_workouts) ==
    [raised |-> FALSE,
     result |-> [type |-> "tool_result", tool_use_id |-> tool_use.id,
                 content |-> IF stored_workouts = <<>>
                             THEN [text |-> "No workouts have been created yet.",
                                   count |-> 0, listed |-> <<>>]
                             ELSE [text |-> "created total.",
                                   count |-> Len(stored_workouts),
                                   listed |-> DictValues(stored_workouts)]]]

\* the keys of Claude.tool_handlers
ToolHandlerNames ==
    {"create_workouts", "retrieve_proposed_workouts",
     "retrieve_garmin_workouts", "retrieve_garmin_workout_details"}

\* the outcomes of the Garmin call a handler may make
GarminOutcomes(tool_use) ==
    IF tool_use.name = "retrieve_garmin_workouts" THEN GetWorkoutsOutcomes
    ELSE IF tool_use.name = "retrieve_garmin_workout_details"
              /\ Get(tool_use.input, "workout_id", 0) # 0
         THEN GetWorkoutByIdOutcomes
    ELSE {Ok(None)}

\* the handlers with create_workouts run on a copy of the registry, so that
\* what it stores is lost to the invocations that follow
DispatchOnCopy(tool_use, stored_workouts, outcome) ==
    IF tool_use.name = "create_workouts"
    THEN [HandleCreateWorkoutsTool(tool_use, stored_workouts)
              EXCEPT !.stored_workouts = stored_workouts]
    ELSE [stored_workouts |-> stored_workouts] @@
         (IF tool_use.name = "retrieve_proposed_workouts"
          THEN HandleRetrieveWorkoutsTool(tool_use, stored_workouts)
          ELSE IF tool_use.name = "retrieve_garmin_workouts"
          THEN HandleRetrieveGarminWorkoutsTool(tool_use, outcome)
          ELSE HandleRetrieveGarminWorkoutDetailsTool(tool_use, outcome))

\* self.tool_handlers[tool_use.name](tool_use): the result or the exception,
\* and the registry as the call leaves it
Dispatch(tool_use, stored_workouts, outcome) ==
    IF tool_use.name = "create_workouts"
    THEN HandleCreateWorkoutsTool(tool_use, stored_workouts)
    ELSE [stored_workouts |-> stored_workouts] @@
         (IF tool_use.name = "retrieve_proposed_workouts"
          THEN HandleRetrieveWorkoutsTool(tool_use, stored_workouts)
          ELSE IF tool_use.name = "retrieve_garmin_workouts"
          THEN HandleRetrieveGarminWorkoutsTool(tool_use, outcome)
          ELSE HandleRetrieveGarminWorkoutDetailsTool(tool_use, outcome))

-----------------------------------------------------------------------------
(* What the language model may answer.  The Messages API reports           *)
(* stop_reason "tool_use" only for a response that holds a tool_use block; *)
(* a response cut at max_tokens may hold tool_use blocks all the same.     *)

\* "Week 1:"
TextWeek1 == <<"W", "e", "e", "k", " ", "1", ":">>

\* "Done."
TextDone == <<"D", "o", "n", "e", ".">>

TextBlock(text) == [type |-> "text", text |-> text]

\* an invocation as the model writes it; its id is given with its place
Invoke(name, input) == ToolUse(None, name, input)

InvCreateA == Invoke("create_workouts", [workouts |-> <<PayloadA>>])

InvCreateA2 == Invoke("create_workouts", [workouts |-> <<PayloadA2>>])

InvCreateB == Invoke("create_workouts", [workouts |-> <<PayloadB>>])

InvCreateBad == Invoke("create_workouts", [workouts |-> <<PayloadBad>>])

InvProposed == Invoke("retrieve_proposed_workouts", [note |-> "no input"])

InvGarminWorkouts == Invoke("retrieve_garmin_workouts", [start |-> 0, limit |-> 10])

InvGarminDetails == Invoke("retrieve_garmin_workout_details", [workout_id |-> 7])

InvGarminDetailsNoId == Invoke("retrieve_garmin_workout_details", [note |-> "no input"])

\* a tool name that is no key of tool_handlers
InvUnknown == Invoke("delete_workouts", [note |-> "no input"])

\* the tool invocations of one response
ToolUseLists ==
    {<<InvCreateA>>, <<InvCreateA, InvCreateA2>>, <<InvCreateBad>>,
     <<InvUnknown, InvCreateB>>, <<InvGarminWorkouts, InvGarminDetails>>,
     <<InvGarminDetailsNoId, InvProposed>>, <<InvGarminWorkouts, InvCreateBad>>}

\* the content blocks of the model's answers: text first, then the invocations
Contents ==
    {<<TextBlock(TextWeek1)>>, <<TextBlock(TextDone)>>, <<>>}
    \cup ToolUseLists
    \cup {<<TextBlock(TextWeek1)>> \o <<InvCreateA>>}

\* the content blocks of type tool_use
RECURSIVE ToolUsesOf(_)
ToolUsesOf(content) ==
    IF content = <<>> THEN <<>>
    ELSE (IF Head(content).type = "tool_use" THEN <<Head(content)>> ELSE <<>>)
         \o ToolUsesOf(Tail(content))

\* the text of the content blocks of type text, in order
RECURSIVE TextOf(_)
TextOf(content) ==
    IF content = <<>> THEN <<>>
    ELSE (IF Head(content).type = "text" THEN Head(content).text ELSE <<>>)
         \o TextOf(Tail(content))

\* the answers of client.messages.create
Responses ==
    {r \in [content : Contents, stop_reason : {"end_turn", "max_tokens", "tool_use"}] :
        /\ r.stop_reason = "tool_use" => ToolUsesOf(r.content) # <<>>
        /\ r.stop_reason = "end_turn" => ToolUsesOf(r.content) = <<>>}

\* the response with the ids the API gives its tool_use blocks
WithIds(r, q) ==
    [r EXCEPT !.content =
        [p \in 1..Len(r.content) |->
            IF r.content[p].type = "tool_use"
            THEN [r.content[p] EXCEPT !.id = <<q, p>>]
            ELSE r.content[p]]]

-----------------------------------------------------------------------------
(* customclaudeclient/client.py: Claude.chat.                              *)

\* the turns of conversation_history
UserTurn(message) == [role |-> "user", kind |-> "message", content |-> message]

AssistantTurn(content) ==
    [role |-> "assistant", kind |-> "response", content |-> content]

ToolResultTurn(content_blocks) ==
    [role |-> "user", kind |-> "tool_results", content |-> content_blocks]

\* the loop test with the turn going on unless the model ended it itself
ChatBreaksOnEndTurn(stop_reason) == stop_reason = "end_turn"

\* the loop test at the end of a round: break unless stop_reason is tool_use
ChatBreaks(stop_reason) == stop_reason # "tool_use"

\* return chat_response, list(self.workouts.values())
ChatReturn(text, stored_workouts) ==
    [text |-> text, workouts |-> DictValues(stored_workouts)]

\* the end of a round: the loop test, and the return when the loop breaks
EndRound(stop_reason, text) ==
    IF ChatBreaks(stop_reason)
    THEN /\ pc' = "Done"
         /\ chat_return' = ChatReturn(text, workouts')
    ELSE /\ pc' = "AwaitingModel"
         /\ UNCHANGED chat_return

\* chat(message), up to the loop, in a run of at most max_queries model calls
ChatCallWithin(message, max_queries) ==
    /\ queries < max_queries
    /\ conversation_history' = Append(conversation_history, UserTurn(message))
    /\ chat_response' = <<>>
    /\ pc' = "AwaitingModel"
    /\ chat_return' = None
    /\ UNCHANGED <<workouts, lastCall, response, tool_idx, tool_results,
                   queries, codec, heur, snapshot, mcp, target>>

\* chat(message), up to the loop
ChatCall(message) == ChatCallWithin(message, MaxQueries)

\* chat(message) called by the user of the client: the caller's next call,
\* after a return or after an exception
Chat(message) ==
    /\ pc \in {"AwaitingUser", "Done", "Raised"}
    /\ ChatCall(message)
    /\ UNCHANGED complete

\* one model call of the loop and the first pass over its content, in a run
\* of at most max_queries model calls
ModelCallWithin(r, max_queries) ==
    /\ pc = "AwaitingModel"
    /\ queries < max_queries
    /\ queries' = queries + 1
    /\ response' = WithIds(r, queries')
    /\ chat_response' = chat_response \o TextOf(r.content)
    /\ conversation_history' =
           Append(conversation_history, AssistantTurn(response'.content))
    /\ tool_results' = <<>>
    /\ UNCHANGED <<workouts, lastCall, codec, heur, snapshot, mcp, complete, target>>
    /\ IF ToolUsesOf(r.content) # <<>>
       THEN /\ pc' = "ExecutingTools"
            /\ tool_idx' = 1
            /\ UNCHANGED chat_return
       ELSE /\ tool_idx' = 0
            /\ EndRound(r.stop_reason, chat_response')

\* one model call of the loop and the first pass over its content
ModelCall(r) == ModelCallWithin(r, MaxQueries)

\* a model call that fails, with the failure swallowed and the turn returned
ModelCallFailsSwallowed ==
    /\ pc = "AwaitingModel"
    /\ queries < MaxQueries
    /\ queries' = queries + 1
    /\ pc' = "Done"
    /\ chat_return' = ChatReturn(chat_response, workouts)
    /\ lastCall' = [kind |-> "messages.create", out |-> Raise("APIError")]
    /\ UNCHANGED <<workouts, conversation_history, chat_response, response,
                   tool_idx, tool_results, codec, heur, snapshot, mcp, complete, target>>

\* a model call that fails: the exception leaves chat
ModelCallFails ==
    /\ pc = "AwaitingModel"
    /\ queries < MaxQueries
    /\ queries' = queries + 1
    /\ pc' = "Raised"
    /\ lastCall' = [kind |-> "messages.create", out |-> Raise("APIError")]
    /\ UNCHANGED <<workouts, conversation_history, chat_response, response,
                   tool_idx, tool_results, chat_return, codec, heur, snapshot, mcp, complete, target>>

\* the second pass: the next invocation, run by its handler or skipped
ExecTool ==
    /\ pc = "ExecutingTools"
    /\ tool_idx <= Len(ToolUsesOf(response.content))
    /\ LET tool_use == ToolUsesOf(response.content)[tool_idx] IN
       IF tool_use.name \in ToolHandlerNames
       THEN \E outcome \in GarminOutcomes(tool_use) :
                LET out == Dispatch(tool_use, workouts, outcome) IN
                /\ lastCall' = [kind |-> tool_use.name, tool_use |-> tool_use,
                                before |-> workouts, garmin |-> outcome,
                                out |-> out]
                /\ workouts' = out.stored_workouts
                /\ IF out.raised
                   THEN /\ pc' = "Raised"
                        /\ UNCHANGED <<tool_idx, tool_results>>
                   ELSE /\ pc' = "ExecutingTools"
                        /\ tool_idx' = tool_idx + 1
                        /\ tool_results' = Append(tool_results, out.result)
       ELSE /\ lastCall' = [kind |-> "skipped", tool_use |-> tool_use]
            /\ tool_idx' = tool_idx + 1
            /\ UNCHANGED <<workouts, tool_results, pc>>
    /\ UNCHANGED <<conversation_history, chat_response, response, chat_return,
                   queries, codec, heur, snapshot, mcp, complete, target>>

\* the result blocks chat writes to the history
ContentBlocks(results) ==
    [i \in 1..Len(results) |->
        [type |-> "tool_result", tool_use_id |-> results[i].tool_use_id,
         content |-> results[i].content]]

\* after the second pass: the tool-result turn, then the loop test
AppendToolResults ==
    /\ pc = "ExecutingTools"
    /\ tool_idx > Len(ToolUsesOf(response.content))
    /\ conversation_history' =
           Append(conversation_history, ToolResultTurn(ContentBlocks(tool_results)))
    /\ UNCHANGED <<workouts, lastCall, chat_response, response, tool_idx,
                   tool_results, queries, codec, heur, snapshot, mcp, complete, target>>
    /\ EndRound(response.stop_reason, chat_response)

Next ==
    \/ \E message \in {"plan my week"} : Chat(message)
    \/ \E r \in Responses : ModelCall(r)
    \/ ModelCallFails
    \/ ExecTool
    \/ AppendToolResults

Spec == Init /\ [][Next]_vars

-----------------------------------------------------------------------------
(* Properties of Claude.chat, checked under Spec.                          *)

GarminToolNames == {"retrieve_garmin_workouts", "retrieve_garmin_workout_details"}

\* the invocations of the current response that have a handler
RECURSIVE Handled(_)
Handled(tool_uses) ==
    IF tool_uses = <<>> THEN <<>>
    ELSE (IF Head(tool_uses).name \in ToolHandlerNames
          THEN <<Head(tool_uses)>> ELSE <<>>)
         \o Handled(Tail(tool_uses))

\* a model call has failed in this turn
ModelCallFailed == lastCall.kind = "messages.create"

\* the text of the assistant turns after the last user message
RECURSIVE TurnText(_)
TurnText(history) ==
    IF history = <<>> THEN <<>>
    ELSE LET last == history[Len(history)]
             before == SubSeq(history, 1, Len(history) - 1) IN
         IF last.kind = "message" THEN <<>>
         ELSE IF last.kind = "response" THEN TurnText(before) \o TextOf(last.content)
         ELSE TurnText(before)

\* the turn has ended after a round whose response held tool invocations
TurnEndedOnToolRound ==
    /\ pc \in {"Done", "Raised"}
    /\ ToolUsesOf(response.content) # <<>>
    /\ ~ModelCallFailed

\* C5: whenever a model response contains tool invocations, their handlers
\* run one at a time in the order of emission (the results so far answer the
\* first handled invocations, in order), one combined tool-result turn
\* follows the assistant turn, and the model is queried again in the same
\* user turn: the turn never ends on such a round.
C5_ToolRoundRequeries ==
    /\ Len(tool_results) <= Len(Handled(ToolUsesOf(response.content)))
    /\ \A i \in 1..Len(tool_results) :
           tool_results[i].tool_use_id = Handled(ToolUsesOf(response.content))[i].id
    /\ (pc \in {"AwaitingModel", "Done"} /\ ToolUsesOf(response.content) # <<>>
            /\ conversation_history[Len(conversation_history)].kind # "message")
           => LET n == Len(conversation_history) IN
              /\ n >= 2
              /\ conversation_history[n].kind = "tool_results"
              /\ conversation_history[n] = ToolResultTurn(ContentBlocks(tool_results))
              /\ conversation_history[n - 1] = AssistantTurn(response.content)
              /\ Len(tool_results) = Len(Handled(ToolUsesOf(response.content)))
    /\ ~TurnEndedOnToolRound

\* C6: when a model response contains no tool invocations the round ends
\* the user turn: chat returns the text accumulated over all rounds of the
\* turn, and the model is not queried again before the next user message.
C6_NoToolRoundEndsTurn ==
    [][/\ (pc = "AwaitingModel" /\ pc' # "Raised"
              /\ ToolUsesOf(response'.content) = <<>>)
          => /\ pc' = "Done"
             /\ chat_return'.text = TurnText(conversation_history')
             /\ conversation_history'[Len(conversation_history')]
                    = AssistantTurn(response'.content)
       /\ pc = "Done"
          => /\ queries' = queries
             /\ conversation_history'[Len(conversation_history')].kind = "message"
      ]_vars

\* a turn of two rounds has ended on a response without tool invocations and
\* returned the text of both rounds
C6_Witness ==
    /\ pc = "Done"
    /\ ToolUsesOf(response.content) = <<>>
    /\ Len(conversation_history) = 4
    /\ conversation_history[3].kind = "tool_results"
    /\ chat_return.text = TextWeek1 \o TextDone

\* C7: handler-local errors never escape a tool round, a create_workouts
\* payload with invalid intensity bounds included: chat raises only when the
\* model call itself has failed.
C7_OnlyModelCallRaises == pc = "Raised" => ModelCallFailed

\* the result of a Garmin handler whose Garmin call raised error
IsGarminError(result, error) ==
    /\ "type" \notin DOMAIN result
    /\ Len(result.content) = 1
    /\ result.content[1].type = "text"
    /\ result.content[1].text.detail = error
    /\ result.content[1].text.text \in
           {"Error retrieving workouts from Garmin Connect",
            "Error retrieving workout details from Garmin Connect"}

\* the last tool call was a Garmin handler whose Garmin call raised
GarminRaised ==
    /\ lastCall.kind \in GarminToolNames
    /\ lastCall.garmin.raised

\* a Garmin call raised in the round of the current response
GarminRaisedInRound ==
    \E i \in 1..Len(tool_results) :
        IsGarminError(tool_results[i], "GarminConnectConnectionError")

\* C8: an exception of the Garmin collaborator is caught in the handler and
\* returned as a tool result with the invocation's id and an error text; it
\* does not propagate, the registry is unchanged, and the turn goes on to the
\* next model query: it does not end on the round of that invocation.
C8_GarminErrorFedBack ==
    /\ GarminRaised =>
           /\ ~lastCall.out.raised
           /\ lastCall.out.result.tool_use_id = lastCall.tool_use.id
           /\ IsGarminError(lastCall.out.result, lastCall.garmin.error)
           /\ workouts = lastCall.before
    /\ (GarminRaisedInRound /\ ~ModelCallFailed) => pc \notin {"Done", "Raised"}

-----------------------------------------------------------------------------
(* garmin/models/workout.py and run_workout.py: to_dict, the wire map sent *)
(* to Garmin Connect.  A dict is a function; its keys are its DOMAIN.      *)

\* StepType.to_dict / EndConditionType.to_dict / SportType.to_dict
EnumToDict(value, id_key, key_key) ==
    (id_key :> value[2]) @@ (key_key :> value[1]) @@ ("displayOrder" :> value[3])

\* EndCondition.to_dict
EndConditionToDict(end_condition) ==
    EnumToDict(EndConditionTypeValue[end_condition.condition_type],
               "conditionTypeId", "conditionTypeKey")
    @@ ("displayable" :> end_condition.displayable)

\* to_target_dict of the four intensity targets
ToTargetDict(intensity) ==
    CASE intensity.target_type = "no_target" ->
             [workoutTargetTypeId |-> 1, workoutTargetTypeKey |-> "no.target",
              displayOrder |-> 1]
      [] intensity.target_type = "cadence" ->
             [workoutTargetTypeId |-> 3, workoutTargetTypeKey |-> "cadence",
              displayOrder |-> 3]
      [] intensity.target_type = "heart_rate_zone" ->
             [workoutTargetTypeId |-> 4, workoutTargetTypeKey |-> "heart.rate.zone",
              displayOrder |-> 4]
      [] intensity.target_type = "pace_zone" ->
             [workoutTargetTypeId |-> 6, workoutTargetTypeKey |-> "pace.zone",
              displayOrder |-> 6]

\* the entry result[key] = getattr(intensity, attr) of a bound or a zone,
\* written when the target has the attribute: a number, never None
NumberEntry(intensity, attr, key) ==
    IF attr \in DOMAIN intensity
    THEN key :> intensity[attr]
    ELSE <<>>

\* the entry result["targetValueUnit"], written when the target has the
\* attribute and it is not None
UnitEntry(intensity) ==
    IF "target_value_unit" \in DOMAIN intensity /\ intensity.target_value_unit # None
    THEN "targetValueUnit" :> intensity.target_value_unit
    ELSE <<>>

\* WorkoutStep.to_dict
WorkoutStepToDict(step) ==
    [stepOrder |-> step.step_order,
     stepType |-> EnumToDict(StepTypeValue[step.step_type], "stepTypeId", "stepTypeKey"),
     type |-> "ExecutableStepDTO",
     endCondition |-> EndConditionToDict(step.end_condition),
     endConditionValue |-> step.end_condition.value,
     targetType |-> ToTargetDict(step.intensity),
     preferredEndConditionUnit |-> None,
     endConditionCompare |-> None,
     stepAudioNote |-> None]
    @@ NumberEntry(step.intensity, "lower_bound", "targetValueOne")
    @@ NumberEntry(step.intensity, "upper_bound", "targetValueTwo")
    @@ UnitEntry(step.intensity)
    @@ NumberEntry(step.intensity, "zone_number", "zoneNumber")

\* WorkoutSegment.to_dict: every step's dict gets stepId = step_order
WorkoutSegmentToDict(segment) ==
    [segmentOrder |-> segment.segment_order,
     sportType |-> EnumToDict(segment.sport_type, "sportTypeId", "sportTypeKey"),
     workoutSteps |->
         [i \in 1..Len(segment.workout_steps) |->
             WorkoutStepToDict(segment.workout_steps[i])
             @@ ("stepId" :> segment.workout_steps[i].step_order)]]

\* RunWorkout.to_dict
RunWorkoutToDict(workout) ==
    [sportType |-> EnumToDict(SportTypeRunning, "sportTypeId", "sportTypeKey"),
     subSportType |-> None,
     workoutName |-> workout.workout_name,
     estimatedDistanceUnit |-> [unitKey |-> None],
     avgTrainingSpeed |-> 0,
     workoutSegments |->
         [i \in 1..Len(workout.workout_segments) |->
             WorkoutSegmentToDict(workout.workout_segments[i])],
     estimatedDurationInSecs |-> 0,
     estimatedDistanceInMeters |-> 0,
     estimateType |-> None,
     isWheelchair |-> workout.is_wheelchair]

-----------------------------------------------------------------------------
(* garmin/workout_parser.py: WorkoutParser, from the wire map to a workout *)

\* step_type_map of _parse_step_type: "other" is not among its keys
StepTypeMap ==
    [warmup |-> "WARMUP", cooldown |-> "COOLDOWN", interval |-> "INTERVAL",
     recovery |-> "RECOVERY", rest |-> "REST"]

\* WorkoutParser._parse_step_type
ParseStepType(step_type_data) ==
    LET key == Get(step_type_data, "stepTypeKey", None)
        looked_up == IF key = None THEN "other" ELSE key IN
    IF looked_up \in DOMAIN StepTypeMap
    THEN Ok(StepTypeMap[looked_up])
    ELSE Raise("KeyError")

\* condition_map of _parse_end_condition
ConditionMap ==
    ("lap.button" :> "LAP_BUTTON") @@ ("time" :> "TIME") @@
    ("distance" :> "DISTANCE") @@ ("calories" :> "CALORIES")

\* WorkoutParser._parse_end_condition
ParseEndCondition(step_data) ==
    LET end_condition_data == Get(step_data, "endCondition", <<>>)
        condition_key == Get(end_condition_data, "conditionTypeKey", None)
        value == Get(step_data, "endConditionValue", 0)
        displayable == Get(end_condition_data, "displayable", TRUE) IN
    EndCondition(Get(ConditionMap, condition_key, "LAP_BUTTON"), value, displayable)

\* step_data.get(key) is not None, for the keys of bounds and zone: to_dict
\* writes them with a number or leaves them out
IsNotNone(step_data, key) == key \in DOMAIN step_data

\* WorkoutParser._parse_intensity_target
ParseIntensityTarget(step_data) ==
    LET target_data == Get(step_data, "targetType", <<>>)
        target_key == Get(target_data, "workoutTargetTypeKey", None)
        one == "targetValueOne"
        two == "targetValueTwo"
        zone == "zoneNumber" IN
    IF target_key = "no.target" THEN Ok(NoTarget)
    ELSE IF target_key = "cadence"
    THEN IF IsNotNone(step_data, one) /\ IsNotNone(step_data, two)
         THEN CadenceTarget(step_data[one], step_data[two])
         ELSE Ok(NoTarget)
    ELSE IF target_key = "heart.rate.zone"
    THEN IF IsNotNone(step_data, zone)
         THEN HeartRateZoneTarget(step_data[zone])
         ELSE Ok(NoTarget)
    ELSE IF target_key = "pace.zone"
         \* upper = targetValueOne, lower = targetValueTwo
    THEN IF IsNotNone(step_data, two) /\ IsNotNone(step_data, one)
         THEN PaceZoneTarget(step_data[two], step_data[one])
         ELSE Ok(NoTarget)
    ELSE Ok(NoTarget)

\* WorkoutParser._parse_workout_step
ParseWorkoutStep(step_data) ==
    LET step_order == Get(step_data, "stepOrder", 1)
        step_type == ParseStepType(Get(step_data, "stepType", <<>>))
        end_condition == ParseEndCondition(step_data)
        intensity == ParseIntensityTarget(step_data) IN
    IF step_type.raised THEN step_type
    ELSE IF intensity.raised THEN intensity
    ELSE Ok(WorkoutStep(step_order, step_type.value, end_condition, intensity.value))

\* the loop of _parse_workout_segment over workoutSteps, from step i on
RECURSIVE ParseSteps(_, _)
ParseSteps(steps_data, i) ==
    IF i > Len(steps_data) THEN Ok(<<>>)
    ELSE IF Get(steps_data[i], "type", None) # "ExecutableStepDTO"
    THEN ParseSteps(steps_data, i + 1)
    ELSE LET workout_step == ParseWorkoutStep(steps_data[i]) IN
         IF workout_step.raised THEN workout_step
         ELSE LET rest == ParseSteps(steps_data, i + 1) IN
              IF rest.raised THEN rest
              ELSE Ok(<<workout_step.value>> \o rest.value)

\* WorkoutParser._parse_workout_segment
ParseWorkoutSegment(segment_data) ==
    LET segment_order == Get(segment_data, "segmentOrder", 1)
        workout_steps == ParseSteps(Get(segment_data, "workoutSteps", <<>>), 1) IN
    IF workout_steps.raised THEN workout_steps
    ELSE Ok(WorkoutSegment(segment_order, SportTypeRunning, workout_steps.value))

\* the loop of parse_workout over workoutSegments, from segment i on
RECURSIVE ParseSegments(_, _)
ParseSegments(segments_data, i) ==
    IF i > Len(segments_data) THEN Ok(<<>>)
    ELSE LET segment == ParseWorkoutSegment(segments_data[i]) IN
         IF segment.raised THEN segment
         ELSE LET rest == ParseSegments(segments_data, i + 1) IN
              IF rest.raised THEN rest
              ELSE Ok(<<segment.value>> \o rest.value)

\* WorkoutParser.parse_workout: isWheelchair is not read
ParseWorkout(workout_json) ==
    LET workout_name == Get(workout_json, "workoutName", "Untitled Workout")
        workout_segments == ParseSegments(Get(workout_json, "workoutSegments", <<>>), 1) IN
    IF workout_segments.raised THEN workout_segments
    ELSE Ok(RunWorkout(workout_name, workout_segments.value, FALSE))

-----------------------------------------------------------------------------
(* The round trip parse_workout(w.to_dict()) over valid workouts.          *)

\* the end conditions of the steps tried
EndConditions ==
    {EndCondition("TIME", 600, TRUE), EndCondition("DISTANCE", 1000, FALSE)}

\* the four intensity variants with valid bounds, built by their
\* constructors: pace bounds in 1e-5 m/s, the lower bound the faster one
ValidIntensities ==
    {t.value : t \in {r \in {Ok(NoTarget), CadenceTarget(160, 180),
                             HeartRateZoneTarget(3),
                             PaceZoneTarget(7 * MpsPerMph, 6 * MpsPerMph),
                             PaceZoneTarget(6 * MpsPerMph, 6 * MpsPerMph)} :
                          ~r.raised}}

\* the steps tried, before their place in the segment is known: every step
\* type, and every end condition with every intensity
StepKinds ==
    (StepTypeNames \X {EndCondition("TIME", 600, TRUE)} \X {NoTarget})
    \cup ({"INTERVAL"} \X EndConditions \X ValidIntensities)

\* the valid workouts of n steps, in one running segment
ValidWorkouts(n) ==
    {RunWorkout("W", <<WorkoutSegment(1, SportTypeRunning,
                          [i \in 1..n |-> WorkoutStep(i, k[i][1], k[i][2], k[i][3])])>>,
                is_wheelchair) :
         k \in [1..n -> StepKinds], is_wheelchair \in BOOLEAN}

\* a valid workout is at hand
BuildWorkout(w) ==
    /\ codec.stage = "none"
    /\ codec' = [stage |-> "built", w |-> w]
    /\ UNCHANGED <<workouts, lastCall, chatVars, heur, snapshot, mcp, complete, target>>

\* w.to_dict()
ToDict ==
    /\ codec.stage = "built"
    /\ codec' = [stage |-> "encoded", w |-> codec.w, wire |-> RunWorkoutToDict(codec.w)]
    /\ UNCHANGED <<workouts, lastCall, chatVars, heur, snapshot, mcp, complete, target>>

\* WorkoutParser.parse_workout(wire)
Parse ==
    /\ codec.stage = "encoded"
    /\ codec' = [stage |-> "decoded", w |-> codec.w, wire |-> codec.wire,
                 parsed |-> ParseWorkout(codec.wire)]
    /\ UNCHANGED <<workouts, lastCall, chatVars, heur, snapshot, mcp, complete, target>>

NextCodec ==
    \/ \E n \in 1..MaxSteps : \E w \in ValidWorkouts(n) : BuildWorkout(w)
    \/ ToDict
    \/ Parse

SpecCodec == Init /\ [][NextCodec]_vars

\* two workouts agree on name, segment order, step order, step type, end
\* condition and intensity
SameTrackedFields(a, b) ==
    /\ a.workout_name = b.workout_name
    /\ a.workout_segments = b.workout_segments

\* C4: for every valid workout w, parse_workout(w.to_dict()) succeeds and
\* yields a workout equal to w on every tracked field.
C4_RoundTrip ==
    codec.stage = "decoded" =>
        /\ ~codec.parsed.raised
        /\ SameTrackedFields(codec.parsed.value, codec.w)

-----------------------------------------------------------------------------
(* customclaudeclient/client.py: Claude._should_continue_conversation.     *)
(* A text is the sequence of its characters.                               *)

\* continuation_indicators
ContinuationIndicators ==
    <<<<"I", "'", "l", "l", " ", "c", "o", "n", "t", "i", "n", "u", "e">>,
      <<"I", "'", "l", "l", " ", "f", "i", "n", "i", "s", "h">>,
      <<"L", "e", "t", " ", "m", "e", " ", "c", "o", "n", "t", "i", "n", "u", "e">>,
      <<"I", "'", "l", "l", " ", "p", "r", "o", "v", "i", "d", "e">>,
      <<"N", "e", "x", "t", ",">>,
      <<"W", "e", "e", "k", " ", "1", ":">>,
      <<"c", "o", "n", "t", "i", "n", "u", "i", "n", "g", " ", "w", "i", "t", "h">>,
      <<"m", "o", "v", "i", "n", "g", " ", "o", "n", " ", "t", "o">>,
      <<"P", "a", "r", "t", " ", "2">>,
      <<"P", "a", "r", "t", " ", "3">>>>

UpperLetters == <<"A", "B", "C", "D", "E", "F", "G", "H", "I", "J", "K", "L", "M", "N", "O", "P", "Q", "R", "S", "T", "U", "V", "W", "X", "Y", "Z">>

LowerLetters == <<"a", "b", "c", "d", "e", "f", "g", "h", "i", "j", "k", "l", "m", "n", "o", "p", "q", "r", "s", "t", "u", "v", "w", "x", "y", "z">>

\* str.lower()
ToLower(text) ==
    [i \in 1..Len(text) |->
        IF \E j \in 1..Len(UpperLetters) : UpperLetters[j] = text[i]
        THEN LowerLetters[CHOOSE j \in 1..Len(UpperLetters) : UpperLetters[j] = text[i]]
        ELSE text[i]]

\* needle in text
Contains(text, needle) ==
    \E start \in 0..(Len(text) - Len(needle)) :
        \A i \in 1..Len(needle) : text[start + i] = needle[i]

TextWeek1Bare == <<"W", "e", "e", "k", " ", "1">>

TextWeek2 == <<"W", "e", "e", "k", " ", "2">>

TextWeek3 == <<"W", "e", "e", "k", " ", "3">>

\* _should_continue_conversation(response)
ShouldContinueConversation(text) ==
    IF /\ Contains(text, TextWeek1Bare)
       /\ ~Contains(text, TextWeek2)
       /\ ~Contains(text, TextWeek3)
    THEN TRUE
    ELSE \E k \in 1..Len(ContinuationIndicators) :
             Contains(ToLower(text), ToLower(ContinuationIndicators[k]))

\* the pieces the free texts tried are written with
Pieces ==
    {TextWeek1Bare, TextWeek2, TextWeek3, <<"w", "e", "e", "k", " ", "1">>, <<":">>, <<" ">>,
     <<"P", "a", "r", "t", " ", "2">>, <<"r", "u", "n">>}

\* the texts of n pieces
RECURSIVE TextsOf(_)
TextsOf(n) ==
    IF n = 0 THEN {<<>>}
    ELSE {t \o p : t \in TextsOf(n - 1), p \in Pieces}

\* the model has answered a user turn with free text
FreeText(text) ==
    /\ heur.stage = "none"
    /\ heur' = [stage |-> "text", text |-> text]
    /\ UNCHANGED <<workouts, lastCall, chatVars, codec, complete, target,
                   snapshot, mcp>>

\* chat_complete asks whether to go on
ShouldContinue ==
    /\ heur.stage = "text"
    /\ heur' = [stage |-> "decided", text |-> heur.text,
                continue |-> ShouldContinueConversation(heur.text)]
    /\ UNCHANGED <<workouts, lastCall, chatVars, codec, complete, target,
                   snapshot, mcp>>

NextHeuristic ==
    \/ \E n \in 0..MaxWords : \E text \in TextsOf(n) : FreeText(text)
    \/ ShouldContinue

SpecHeuristic == Init /\ [][NextHeuristic]_vars

\* a stock continuation phrase other than the heading "Week 1:" is in the text
OtherStockPhrase(text) ==
    \E k \in 1..Len(ContinuationIndicators) :
        /\ ContinuationIndicators[k] # TextWeek1
        /\ Contains(ToLower(text), ToLower(ContinuationIndicators[k]))

\* C10: a text with "Week 1" and neither "Week 2" nor "Week 3" signals
\* continuation; a text with both "Week 1" and "Week 2" and no other stock
\* continuation phrase does not, the heading written "Week 1:" included.
C10_WeekHeuristic ==
    heur.stage = "decided" =>
        /\ (/\ Contains(heur.text, TextWeek1Bare)
            /\ ~Contains(heur.text, TextWeek2)
            /\ ~Contains(heur.text, TextWeek3)) => heur.continue
        /\ (/\ Contains(heur.text, TextWeek1Bare)
            /\ Contains(heur.text, TextWeek2)
            /\ ~OtherStockPhrase(heur.text)) => ~heur.continue

-----------------------------------------------------------------------------
(* customclaudeclient/client.py: Claude.chat_complete, which calls chat    *)
(* until the continuation heuristic says the model is done.                *)

\* str.strip() of a text whose only white space is " "
RECURSIVE Strip(_)
Strip(text) ==
    IF text = <<>> THEN <<>>
    ELSE IF Head(text) = " " THEN Strip(Tail(text))
    ELSE IF text[Len(text)] = " " THEN Strip(SubSeq(text, 1, Len(text) - 1))
    ELSE text

\* the summary "Created N workouts:" and the numbered names, stripped
Summary(all_workouts) ==
    [kind |-> "summary", count |-> Len(all_workouts),
     names |-> [i \in 1..Len(all_workouts) |-> <<i, all_workouts[i].workout_name>>]]

\* what chat_complete returns after its loop
CompleteReturn(full_response, all_workouts) ==
    IF all_workouts # <<>>
    THEN [text |-> Summary(all_workouts), workouts |-> all_workouts]
    ELSE [text |-> [kind |-> "free", chars |-> Strip(full_response)],
          workouts |-> None]

\* chat_complete has let an exception of chat through
CompleteRaised == complete.stage = "running" /\ pc = "Raised"

\* chat_complete(message), up to its first call of chat, in a run of at most
\* max_queries model calls
ChatCompleteWithin(message, max_queries) ==
    /\ complete.stage \in {"none", "returned"} \/ CompleteRaised
    /\ pc \in {"AwaitingUser", "Done", "Raised"}
    /\ complete' = [stage |-> "running", all_workouts |-> <<>>,
                    full_response |-> <<>>, rounds |-> 1,
                    registry_at_call |-> workouts,
                    history_at_call |-> conversation_history]
    /\ ChatCallWithin(message, max_queries)

\* chat_complete(message), up to its first call of chat
ChatComplete(message) == ChatCompleteWithin(message, MaxQueries)

\* the loop body of chat_complete with the continuation signal looked for in
\* the accumulated text of all turns so far
CompleteRoundWithinAccumulated(max_queries) ==
    /\ complete.stage = "running"
    /\ pc = "Done"
    /\ LET full_response == complete.full_response \o chat_return.text \o <<" ">>
           all_workouts == IF chat_return.workouts # <<>>
                           THEN complete.all_workouts \o chat_return.workouts
                           ELSE complete.all_workouts IN
       IF ShouldContinueConversation(full_response)
       THEN /\ complete' = [complete EXCEPT !.full_response = full_response,
                                            !.all_workouts = all_workouts,
                                            !.rounds = @ + 1]
            /\ ChatCallWithin(<<"c", "o", "n", "t", "i", "n", "u", "e">>,
                              max_queries)
       ELSE /\ complete' = [stage |-> "returned",
                            rounds |-> complete.rounds,
                            registry_at_call |-> complete.registry_at_call,
                            history_at_call |-> complete.history_at_call,
                            ret |-> CompleteReturn(full_response, all_workouts)]
            /\ UNCHANGED <<workouts, lastCall, chatVars, codec, heur, snapshot, mcp, target>>

\* chat has returned to chat_complete: the rest of the loop body, then the
\* next call of chat or the return, in a run of at most max_queries model calls
CompleteRoundWithin(max_queries) ==
    /\ complete.stage = "running"
    /\ pc = "Done"
    /\ LET full_response == complete.full_response \o chat_return.text \o <<" ">>
           all_workouts == IF chat_return.workouts # <<>>
                           THEN complete.all_workouts \o chat_return.workouts
                           ELSE complete.all_workouts IN
       IF ShouldContinueConversation(chat_return.text)
       THEN /\ complete' = [complete EXCEPT !.full_response = full_response,
                                            !.all_workouts = all_workouts,
                                            !.rounds = @ + 1]
            /\ ChatCallWithin(<<"c", "o", "n", "t", "i", "n", "u", "e">>,
                              max_queries)
       ELSE /\ complete' = [stage |-> "returned",
                            rounds |-> complete.rounds,
                            registry_at_call |-> complete.registry_at_call,
                            history_at_call |-> complete.history_at_call,
                            ret |-> CompleteReturn(full_response, all_workouts)]
            /\ UNCHANGED <<workouts, lastCall, chatVars, codec, heur, snapshot, mcp, target>>

\* chat has returned to chat_complete: the rest of the loop body, then the
\* next call of chat or the return
CompleteRound == CompleteRoundWithin(MaxQueries)

\* the user's message to chat_complete
UserMessage == <<"p", "l", "a", "n">>

NextComplete ==
    \/ ChatComplete(UserMessage)
    \/ \E r \in Responses : ModelCall(r)
    \/ ModelCallFails
    \/ ExecTool
    \/ AppendToolResults
    \/ CompleteRound

SpecComplete == Init /\ [][NextComplete]_vars

-----------------------------------------------------------------------------
(* Properties of chat_complete, checked under SpecComplete.                *)

\* the workouts inserted into the registry since chat_complete was called,
\* in the order of their insertion
CreatedInCall ==
    SubSeq(DictValues(workouts), Len(complete.registry_at_call) + 1, Len(workouts))

\* the free text of the turns from turn i of the history on, each round of
\* chat closed by " "
RECURSIVE RoundsText(_, _)
RoundsText(history, i) ==
    IF i > Len(history) THEN <<" ">>
    ELSE IF history[i].kind = "message"
    THEN (IF i = 1 \/ history[i - 1].kind = "message" THEN <<>> ELSE <<" ">>)
         \o RoundsText(history, i + 1)
    ELSE IF history[i].kind = "response"
    THEN TextOf(history[i].content) \o RoundsText(history, i + 1)
    ELSE RoundsText(history, i + 1)

\* the free text of all rounds of the chat_complete call
TextOfCall ==
    RoundsText(SubSeq(conversation_history, Len(complete.history_at_call) + 1,
                      Len(conversation_history)), 2)

\* C11: chat_complete returns the workouts created in its rounds, each
\* exactly once, with the summary "Created N workouts:" and the numbered
\* names, N being the number of workouts created during the call, when at
\* least one was created; otherwise the concatenated free text of all rounds
\* and no workout list.
C11_CompleteReturnsCreated ==
    complete.stage = "returned" =>
        IF CreatedInCall # <<>>
        THEN /\ complete.ret.text.kind = "summary"
             /\ complete.ret.workouts = CreatedInCall
             /\ complete.ret.text.count = Len(CreatedInCall)
             /\ complete.ret.text.names =
                    [i \in 1..Len(CreatedInCall) |-> <<i, CreatedInCall[i].workout_name>>]
        ELSE /\ complete.ret.text.kind = "free"
             /\ complete.ret.text.chars = Strip(TextOfCall)
             /\ complete.ret.workouts = None


\* chat has returned from the user turn that chat_complete opened with its
\* first call of chat
FirstTurnReturned ==
    /\ complete.stage = "running"
    /\ complete.rounds = 1
    /\ pc = "Done"

\* C12: the workout list returned by one chat call is exactly the list of
\* the workouts created during that user turn: none of an earlier turn, and
\* all of this turn.
C12_ChatReturnsTurnWorkouts ==
    FirstTurnReturned => chat_return.workouts = CreatedInCall

-----------------------------------------------------------------------------
(* The constructors of the intensity targets, and the pace conversion of   *)
(* the create_workouts tool, over bounded inputs.                          *)

\* the bounds tried: 0..MaxBound, and the cadences 160 and 180
BoundValues == 0..MaxBound \cup {160, 180}

\* CadenceTarget(lower_bound=l, upper_bound=u)
ConstructCadence(l, u) ==
    /\ target.stage = "none"
    /\ target' = [stage |-> "built", kind |-> "cadence", lower |-> l, upper |-> u,
                  out |-> CadenceTarget(l, u)]
    /\ UNCHANGED <<workouts, lastCall, chatVars, codec, heur, snapshot, mcp, complete>>

\* PaceZoneTarget(lower_bound=l, upper_bound=u), l and u in 1e-5 m/s
ConstructPace(l, u) ==
    /\ target.stage = "none"
    /\ target' = [stage |-> "built", kind |-> "pace", lower |-> l, upper |-> u,
                  out |-> PaceZoneTarget(l, u)]
    /\ UNCHANGED <<workouts, lastCall, chatVars, codec, heur, snapshot, mcp, complete>>

\* the intensity _construct_run_workout builds for a pace_range step with
\* the bounds l and u in mph
ConstructPaceRange(l, u) ==
    /\ target.stage = "none"
    /\ target' = [stage |-> "built", kind |-> "pace_range", lower |-> l, upper |-> u,
                  out |-> ConstructIntensity(StepData("interval", 20, "pace_range")
                                             @@ Bounds(l, u))]
    /\ UNCHANGED <<workouts, lastCall, chatVars, codec, heur, snapshot, mcp, complete>>

\* the zone numbers tried
ZoneNumbers == 0..MaxBound

\* HeartRateZoneTarget(zone_number=z)
ConstructHeartRateZone(z) ==
    /\ target.stage = "none"
    /\ target' = [stage |-> "built", kind |-> "heart_rate_zone", zone |-> z,
                  via |-> "constructor",
                  out |-> HeartRateZoneTarget(z)]
    /\ UNCHANGED <<workouts, lastCall, chatVars, codec, heur, snapshot, mcp,
                   complete>>

\* the intensity _construct_run_workout builds for a heart_rate_zone step
ConstructHeartRateStep(z) ==
    /\ target.stage = "none"
    /\ target' = [stage |-> "built", kind |-> "heart_rate_zone", zone |-> z,
                  via |-> "payload",
                  out |-> ConstructIntensity(
                              StepData("interval", 20, "heart_rate_zone")
                              @@ [zone_number |-> z])]
    /\ UNCHANGED <<workouts, lastCall, chatVars, codec, heur, snapshot, mcp,
                   complete>>

\* the intensity WorkoutParser decodes from a heart.rate.zone wire step
DecodeHeartRateStep(z) ==
    /\ target.stage = "none"
    /\ target' = [stage |-> "built", kind |-> "heart_rate_zone", zone |-> z,
                  via |-> "wire",
                  out |-> ParseIntensityTarget(
                              [targetType |->
                                   [workoutTargetTypeKey |-> "heart.rate.zone"],
                               zoneNumber |-> z])]
    /\ UNCHANGED <<workouts, lastCall, chatVars, codec, heur, snapshot, mcp,
                   complete>>

NextTargets ==
    \/ \E l \in BoundValues, u \in BoundValues :
        \/ ConstructCadence(l, u)
        \/ ConstructPace(l * MpsPerMph, u * MpsPerMph)
        \/ ConstructPaceRange(l, u)
    \/ \E z \in ZoneNumbers :
        \/ ConstructHeartRateZone(z)
        \/ ConstructHeartRateStep(z)
        \/ DecodeHeartRateStep(z)

SpecTargets == Init /\ [][NextTargets]_vars

\* a construction of the given kind has been tried
Built(kind) == target.stage = "built" /\ target.kind = kind

\* C13: constructing a PaceZoneTarget fails with a validation error whenever
\* lower_bound <= upper_bound, equal bounds included; every PaceZoneTarget
\* that exists has lower_bound > upper_bound.
C13_PaceRejectsLowerLeqUpper ==
    Built("pace") =>
        /\ target.lower <= target.upper
               => (target.out.raised /\ target.out.error = "ValueError")
        /\ ~target.out.raised
               => target.out.value.lower_bound > target.out.value.upper_bound

\* C14: constructing a CadenceTarget fails with a validation error whenever
\* lower_bound >= upper_bound and succeeds whenever lower_bound < upper_bound;
\* every CadenceTarget that exists has lower_bound < upper_bound.
C14_CadenceBounds ==
    Built("cadence") =>
        /\ target.lower >= target.upper
               => (target.out.raised /\ target.out.error = "ValueError")
        /\ target.lower < target.upper
               => /\ ~target.out.raised
                  /\ target.out.value.target_type = "cadence"
                  /\ target.out.value.lower_bound = target.lower
                  /\ target.out.value.upper_bound = target.upper
        /\ ~target.out.raised
               => target.out.value.lower_bound < target.out.value.upper_bound

\* CadenceTarget(180, 160) has been tried and has raised
C14_Witness ==
    /\ Built("cadence")
    /\ target.lower = 180 /\ target.upper = 160
    /\ target.out.raised

\* C15: for a pace_range step with the bounds l and u in mph the tool builds
\* a PaceZoneTarget with lower_bound = u * 0.44704 and upper_bound =
\* l * 0.44704; (6, 7) gives 3.12928 and 2.68224 m/s; every l < u gives a
\* target with lower_bound > upper_bound.
C15_PaceConversion ==
    (Built("pace_range") /\ target.lower < target.upper) =>
        /\ ~target.out.raised
        /\ target.out.value.target_type = "pace_zone"
        /\ target.out.value.lower_bound = target.upper * MpsPerMph
        /\ target.out.value.upper_bound = target.lower * MpsPerMph
        /\ target.out.value.lower_bound > target.out.value.upper_bound
        /\ (target.lower = 6 /\ target.upper = 7)
               => /\ target.out.value.lower_bound = 312928
                  /\ target.out.value.upper_bound = 268224

\* the bounds 6 and 7 mph have been converted
C15_Witness ==
    /\ Built("pace_range")
    /\ target.lower = 6 /\ target.upper = 7
    /\ ~target.out.raised
    /\ target.out.value.lower_bound = 312928

-----------------------------------------------------------------------------
(* WorkoutParser._parse_workout_step over wire steps as Garmin Connect may *)
(* send them: keys missing, keys unknown to the parser.                    *)

\* an entry of a wire map that may be left out
Optional(present, key, value) == IF present THEN key :> value ELSE <<>>

\* the stepType maps tried: no stepTypeKey, the six known keys, an unknown one
WireStepTypes ==
    {<<>>} \cup {[stepTypeKey |-> k] :
                    k \in {"warmup", "cooldown", "interval", "recovery", "rest",
                           "other", "swim"}}

\* the targetType maps tried: no key, the four known keys, an unknown one
WireTargetTypes ==
    {<<>>} \cup {[workoutTargetTypeKey |-> k] :
                    k \in {"no.target", "cadence", "heart.rate.zone", "pace.zone",
                           "power.zone"}}

\* the wire steps tried
WireSteps ==
    {[stepOrder |-> 1, type |-> "ExecutableStepDTO",
      endCondition |-> EndConditionToDict(EndCondition("TIME", 600, TRUE))]
     @@ Optional(has[1], "stepType", step_type)
     @@ Optional(has[2], "targetType", target_type)
     @@ Optional(has[3], "targetValueOne", 160)
     @@ Optional(has[4], "targetValueTwo", 180)
     @@ Optional(has[5], "zoneNumber", 3)
     @@ Optional(has[6], "endConditionValue", 600) :
        step_type \in WireStepTypes, target_type \in WireTargetTypes,
        has \in [1..6 -> BOOLEAN]}

\* step_type_map of GarminWorkoutParser._parse_step_type (garmin/parser.py)
GarminStepTypeMap ==
    [warmup |-> "WARMUP", cooldown |-> "COOLDOWN", interval |-> "INTERVAL",
     recovery |-> "RECOVERY", rest |-> "REST", other |-> "OTHER"]

\* GarminWorkoutParser._parse_step_type
GarminParseStepType(step_type_data) ==
    LET key == Get(step_type_data, "stepTypeKey", None)
        looked_up == IF key = None THEN "other" ELSE key IN
    IF looked_up \in DOMAIN GarminStepTypeMap
    THEN Ok(GarminStepTypeMap[looked_up])
    ELSE Raise("KeyError")

\* a wire step has arrived
WireStep(step_data) ==
    /\ codec.stage = "none"
    /\ codec' = [stage |-> "wire_step", step_data |-> step_data]
    /\ UNCHANGED <<workouts, lastCall, chatVars, heur, snapshot, mcp, complete, target>>

\* WorkoutParser._parse_workout_step(step_data)
ParseStep ==
    /\ codec.stage = "wire_step"
    /\ codec' = [stage |-> "step_decoded", step_data |-> codec.step_data,
                 parsed |-> ParseWorkoutStep(codec.step_data)]
    /\ UNCHANGED <<workouts, lastCall, chatVars, heur, snapshot, mcp, complete, target>>

NextDecode ==
    \/ \E step_data \in WireSteps : WireStep(step_data)
    \/ ParseStep

SpecDecode == Init /\ [][NextDecode]_vars

\* the step type key of the decoded wire step, None when it is missing
WireStepTypeKey ==
    Get(Get(codec.step_data, "stepType", <<>>), "stepTypeKey", None)

\* the target type key of the decoded wire step, None when it is missing
WireTargetKey ==
    Get(Get(codec.step_data, "targetType", <<>>), "workoutTargetTypeKey", None)

KnownStepTypeKeys == {"warmup", "cooldown", "interval", "recovery", "rest", "other"}

\* C16: decoding a wire step whose stepTypeKey is unknown or missing does
\* not raise and yields a step of the fallback step type OTHER.
C16_UnknownStepTypeFallsBack ==
    (codec.stage = "step_decoded" /\ WireStepTypeKey \notin KnownStepTypeKeys) =>
        /\ ~codec.parsed.raised
        /\ codec.parsed.value.step_type = "OTHER"
        /\ GarminParseStepType(Get(codec.step_data, "stepType", <<>>)) = Ok("OTHER")

\* the value fields the target key of the wire step needs are all there
TargetValuesPresent ==
    IF WireTargetKey \in {"cadence", "pace.zone"}
    THEN {"targetValueOne", "targetValueTwo"} \subseteq DOMAIN codec.step_data
    ELSE IF WireTargetKey = "heart.rate.zone"
    THEN "zoneNumber" \in DOMAIN codec.step_data
    ELSE TRUE

\* the wire step has no target type the parser knows, or lacks a value field
\* its target type needs
TargetMissingOrUnknown ==
    \/ WireTargetKey \notin {"no.target", "cadence", "heart.rate.zone", "pace.zone"}
    \/ ~TargetValuesPresent

\* C17: decoding a wire step whose targetType is missing or has an unknown
\* key, or whose known target key lacks its value fields, does not raise and
\* yields a step with intensity NoTarget.
C17_MissingTargetFallsBack ==
    (codec.stage = "step_decoded" /\ TargetMissingOrUnknown) =>
        /\ ~codec.parsed.raised
        /\ codec.parsed.value.intensity = NoTarget

-----------------------------------------------------------------------------
(* Further properties of the create_workouts handler, under SpecRegistry.  *)

\* the workout items of the payload of the last create_workouts call
PayloadItems ==
    IF lastCall.kind = "create_workouts" /\ "workouts" \in DOMAIN lastCall.tool_use.input
    THEN lastCall.tool_use.input.workouts
    ELSE <<>>

\* item i of the payload is valid and no duplicate: it constructs, and its
\* name is neither in the registry before the call nor that of an earlier
\* valid item
ValidNonDuplicate(i) ==
    LET built == ConstructRunWorkout(PayloadItems[i]) IN
    /\ ~built.raised
    /\ ~DictHas(lastCall.before, built.value.workout_name)
    /\ \A j \in 1..(i - 1) :
           LET earlier == ConstructRunWorkout(PayloadItems[j]) IN
           earlier.raised \/ earlier.value.workout_name # built.value.workout_name

\* C18: when a create_workouts payload holds a workout with invalid
\* intensity bounds together with valid workouts, only the invalid workout
\* is given up: the valid, non-duplicate ones are inserted into the registry.
C18_InvalidItemIsolated ==
    \A i \in 1..Len(PayloadItems) :
        ValidNonDuplicate(i) =>
            LET built == ConstructRunWorkout(PayloadItems[i]).value IN
            /\ DictHas(workouts, built.workout_name)
            /\ DictGet(workouts, built.workout_name) = built

-----------------------------------------------------------------------------
(* Further properties of Claude.chat, checked under Spec.                  *)

\* the current response invokes a tool name that is no key of tool_handlers
UnknownInRound ==
    \E i \in 1..Len(ToolUsesOf(response.content)) :
        ToolUsesOf(response.content)[i].name \notin ToolHandlerNames

\* the second pass over the current response is over and its tool-result
\* turn is the last turn of the history
RoundClosed ==
    /\ pc \in {"AwaitingModel", "Done"}
    /\ conversation_history # <<>>
    /\ conversation_history[Len(conversation_history)].kind = "tool_results"

\* C19: an invocation of a tool name absent from tool_handlers is skipped
\* without raising, the other invocations of the round are still executed in
\* order with their results appended to the history, and the turn goes on
\* with the next model query.
C19_UnknownToolSkipped ==
    /\ lastCall.kind = "skipped" => pc # "Raised"
    /\ (UnknownInRound /\ RoundClosed) =>
           /\ Len(tool_results) = Len(Handled(ToolUsesOf(response.content)))
           /\ \A i \in 1..Len(tool_results) :
                  tool_results[i].tool_use_id
                      = Handled(ToolUsesOf(response.content))[i].id
           /\ conversation_history[Len(conversation_history)]
                  = ToolResultTurn(ContentBlocks(tool_results))
    /\ (UnknownInRound /\ ~ModelCallFailed) => pc \notin {"Done", "Raised"}


\* the step is a model call of chat that fails: a query is spent and no
\* assistant turn is written
ModelCallFailing ==
    /\ pc = "AwaitingModel"
    /\ queries' = queries + 1
    /\ conversation_history' = conversation_history

\* C20: when the model call fails during a turn, chat raises and returns
\* nothing; the registry keeps the contents it had before the call, and no
\* tool handler runs after it: the next step is a new call of chat.
C20_ModelFailureAborts ==
    [][/\ ModelCallFailing
          => /\ pc' = "Raised"
             /\ workouts' = workouts
             /\ tool_results' = tool_results
             /\ chat_return' = None
       /\ (pc = "Raised" /\ ModelCallFailed)
          => /\ pc' = "AwaitingModel"
             /\ workouts' = workouts
             /\ tool_results' = tool_results
             /\ conversation_history'[Len(conversation_history')].kind = "message"
      ]_vars

\* the second model call of a turn has failed after a round that stored a
\* workout
C20_Witness ==
    /\ pc = "Raised"
    /\ ModelCallFailed
    /\ queries = 2
    /\ workouts # <<>>
    /\ chat_return = None

-----------------------------------------------------------------------------
(* Claude.get_workouts and a caller that keeps the returned mapping.  The  *)
(* returned dict is an object of its own or the registry object itself;    *)
(* "ref" says which, so that a write through the returned mapping lands    *)
(* where Python would put it.                                              *)

\* get_workouts with "return self.workouts": the registry object itself
GetWorkoutsAliased(stored_workouts) == [ref |-> "registry", items |-> <<>>]

\* get_workouts: return self.workouts.copy(), a new dict with the same items
GetWorkouts(stored_workouts) == [ref |-> "copy", items |-> stored_workouts]

\* del d[key] of a key that is present: the other keys keep their order
DictDel(d, k) ==
    LET keep == {i \in 1..Len(d) : d[i][1] # k}
        Nth(j) == CHOOSE i \in keep : Cardinality({h \in keep : h < i}) = j - 1
    IN  [j \in 1..Cardinality(keep) |-> d[Nth(j)]]

\* the items of the mapping the caller holds
SnapshotItems ==
    IF snapshot.ref = "registry" THEN workouts ELSE snapshot.items

\* the caller's d = claude.get_workouts()
CallGetWorkouts ==
    /\ snapshot' = GetWorkouts(workouts)
    /\ UNCHANGED <<workouts, lastCall, chatVars, codec, heur, complete,
                   target, mcp>>

\* a write d[name] = w or del d[name] through the mapping the caller holds
WriteThrough(items) ==
    /\ snapshot.ref # "none"
    /\ IF snapshot.ref = "registry"
       THEN workouts' = items /\ UNCHANGED snapshot
       ELSE snapshot' = [snapshot EXCEPT !.items = items]
            /\ UNCHANGED workouts
    /\ UNCHANGED <<lastCall, chatVars, codec, heur, complete, target, mcp>>

\* the workouts the caller writes into the mapping
CallerWorkouts ==
    {ConstructRunWorkout(PayloadA2).value, ConstructRunWorkout(PayloadB).value}

\* d[name] = w: adds the name or rebinds it
CallerSets(name, w) == WriteThrough(DictSet(SnapshotItems, name, w))

\* del d[name]
CallerDeletes(name) ==
    /\ DictHas(SnapshotItems, name)
    /\ WriteThrough(DictDel(SnapshotItems, name))

\* the caller writes the names A and Z, next to create_workouts invocations
\* that store A and B
NextSnapshot ==
    \/ \E p \in {PayloadA, PayloadB} :
           CallCreateWorkouts(ToolUse("tu1", "create_workouts",
                                      [workouts |-> <<p>>]))
    \/ CallGetWorkouts
    \/ \E name \in {"A", "Z"}, w \in CallerWorkouts : CallerSets(name, w)
    \/ \E name \in {"A", "Z"} : CallerDeletes(name)

SpecSnapshot == Init /\ [][NextSnapshot]_vars

\* C21: get_workouts returns a snapshot copy of the registry: the mapping
\* returned holds the registry's items at the time of the call; adding,
\* removing or rebinding a name in it leaves the registry's names and the
\* workout bound to each name unchanged; and a later insertion into the
\* registry does not appear in a snapshot taken earlier.
C21_SnapshotIsCopy ==
    [][/\ (lastCall' = lastCall => workouts' = workouts)
       /\ (snapshot.ref = "none" /\ snapshot'.ref # "none"
             => SnapshotItems' = workouts)
       /\ (lastCall' # lastCall /\ snapshot.ref # "none"
             => SnapshotItems' = SnapshotItems)]_vars

\* the caller holds a snapshot in which A is rebound and Z added, and the
\* registry has since got B, which the snapshot lacks, and still binds A to
\* the workout it stored
C21_Witness ==
    /\ snapshot.ref = "copy"
    /\ DictHas(snapshot.items, "A") /\ DictHas(workouts, "A")
    /\ DictGet(snapshot.items, "A") # DictGet(workouts, "A")
    /\ DictGet(workouts, "A") = ConstructRunWorkout(PayloadA).value
    /\ DictHas(snapshot.items, "Z") /\ ~DictHas(workouts, "Z")
    /\ DictHas(workouts, "B") /\ ~DictHas(snapshot.items, "B")

-----------------------------------------------------------------------------
(* retrieve_proposed_workouts, run by the second pass of chat.             *)

\* the last handler call was a retrieve_proposed_workouts call
RetrievedProposed == lastCall.kind = "retrieve_proposed_workouts"

\* C22: retrieve_proposed_workouts returns the sentinel text "No workouts
\* have been created yet." exactly when the registry is empty, otherwise a
\* summary whose count is the number of registry entries and which lists
\* every stored workout; in both cases the registry is left unchanged.
C22_RetrieveProposedSummary ==
    RetrievedProposed =>
        LET content == lastCall.out.result.content IN
        /\ ~lastCall.out.raised
        /\ lastCall.out.result.tool_use_id = lastCall.tool_use.id
        /\ (content.text = "No workouts have been created yet.")
               <=> (lastCall.before = <<>>)
        /\ lastCall.before # <<>> =>
               /\ content.text = "created total."
               /\ content.count = Len(lastCall.before)
               /\ content.listed = DictValues(lastCall.before)
        /\ lastCall.out.stored_workouts = lastCall.before
        /\ workouts = lastCall.before

\* the model asked for the proposed workouts after a workout was stored
C22_Witness ==
    /\ RetrievedProposed
    /\ lastCall.before # <<>>
    /\ lastCall.out.result.content.count = 1
    /\ pc = "Done"

-----------------------------------------------------------------------------
\* C23: HeartRateZoneTarget validates its bounds at construction: a
\* zone_number outside 1..5 (0 or 6, say) is rejected, so every
\* HeartRateZoneTarget, built directly, from a create_workouts payload or
\* from the wire, has zone_number in 1..5.
C23_HeartRateZoneBounds ==
    Built("heart_rate_zone") =>
        /\ target.zone \notin 1..5 => target.out.raised
        /\ ~target.out.raised => target.out.value.zone_number \in 1..5

-----------------------------------------------------------------------------
(* chat and chat_complete against a model that never lets go: every answer *)
(* asks for a tool, or carries a text that the continuation heuristic      *)
(* takes as a promise of more.                                             *)

\* the answers of such a model
InsistentResponses ==
    {[content |-> <<InvProposed>>, stop_reason |-> "tool_use"],
     [content |-> <<TextBlock(TextWeek1)>>, stop_reason |-> "end_turn"]}

NextInsistent ==
    \/ ChatCompleteWithin(UserMessage, MaxRounds)
    \/ \E r \in InsistentResponses : ModelCallWithin(r, MaxRounds)
    \/ ExecTool
    \/ AppendToolResults
    \/ CompleteRoundWithin(MaxRounds)

SpecInsistent == Init /\ [][NextInsistent]_vars

\* the model calls of the current turn of chat: the assistant turns of the
\* history after the last user message
RECURSIVE RoundsOfTurn(_)
RoundsOfTurn(history) ==
    IF history = <<>> \/ history[Len(history)].kind = "message" THEN 0
    ELSE (IF history[Len(history)].kind = "response" THEN 1 ELSE 0)
         + RoundsOfTurn(SubSeq(history, 1, Len(history) - 1))

\* a number of rounds below the number the run explores
RoundLimit == MaxRounds - 1

\* C24: both loops are bounded: whatever the model answers, the tool-call
\* loop of chat does not go for another model call after RoundLimit rounds
\* of one turn, and chat_complete does not open another turn after RoundLimit
\* turns.
C24_LoopsBounded ==
    /\ pc = "AwaitingModel" => RoundsOfTurn(conversation_history) < RoundLimit
    /\ complete.stage = "running" => complete.rounds <= RoundLimit

-----------------------------------------------------------------------------
(* chat_complete over a model that answers with text, with or without a    *)
(* continuation signal, or with a text and a tool invocation.              *)

\* the answers of the model
ContinuationResponses ==
    {[content |-> <<TextBlock(TextWeek1)>>, stop_reason |-> "end_turn"],
     [content |-> <<TextBlock(TextDone)>>, stop_reason |-> "end_turn"],
     [content |-> <<TextBlock(TextWeek1), InvProposed>>,
      stop_reason |-> "tool_use"]}

NextContinuation ==
    \/ ChatCompleteWithin(UserMessage, MaxTurns)
    \/ \E r \in ContinuationResponses : ModelCallWithin(r, MaxTurns)
    \/ ExecTool
    \/ AppendToolResults
    \/ CompleteRoundWithin(MaxTurns)

SpecContinuation == Init /\ [][NextContinuation]_vars

\* the history written since chat_complete was called
HistoryOfCall ==
    SubSeq(conversation_history, Len(complete.history_at_call) + 1,
           Len(conversation_history))

\* the positions in it of the user messages, each of which opens a turn
TurnOpenings == {i \in 1..Len(HistoryOfCall) : HistoryOfCall[i].kind = "message"}

\* what holds of the turns of a chat_complete call at every moment
TurnsOfCall ==
    complete.stage \in {"running", "returned"} =>
        /\ HistoryOfCall[1] = UserTurn(UserMessage)
        /\ Cardinality(TurnOpenings) = complete.rounds
        /\ \A i \in TurnOpenings \ {1} :
               /\ HistoryOfCall[i] = UserTurn(<<"c", "o", "n", "t", "i", "n", "u", "e">>)
               /\ ShouldContinueConversation(
                      TurnText(SubSeq(HistoryOfCall, 1, i - 1)))
        /\ complete.stage = "returned"
               => ~ShouldContinueConversation(TurnText(HistoryOfCall))

\* chat has returned to chat_complete
TurnCompleted == complete.stage = "running" /\ pc = "Done"

\* C25: chat_complete runs a first turn with the caller's message and then,
\* for as long as the free text of the turn just completed matches a
\* continuation signal, another full chat turn whose user message is exactly
\* "continue"; it returns after the first turn whose free text matches no
\* signal, and the signal is looked for in that turn's text only, not in the
\* accumulated text of the earlier turns.
C25_ContinuesWhileSignalled ==
    [][/\ TurnsOfCall'
       /\ (TurnCompleted /\ ~ShouldContinueConversation(TurnText(HistoryOfCall)))
              => complete'.stage = "returned"
       /\ (TurnCompleted /\ ShouldContinueConversation(TurnText(HistoryOfCall)))
              => /\ complete'.stage = "running"
                 /\ complete'.rounds = complete.rounds + 1
                 /\ pc' = "AwaitingModel"]_vars

\* chat_complete has returned after three turns: two turns with a signal,
\* one of them with a tool round, then a turn whose text is "Done."
C25_Witness ==
    /\ complete.stage = "returned"
    /\ complete.rounds = 3
    /\ TurnText(HistoryOfCall) = TextDone
    /\ \E i \in 1..Len(HistoryOfCall) : HistoryOfCall[i].kind = "tool_results"

-----------------------------------------------------------------------------
(* Two create_workouts invocations of one response.                        *)

\* the names of the workouts of a create_workouts invocation's payload
NamesOf(tool_use) ==
    {tool_use.input.workouts[i].workout_name :
        i \in 1..Len(tool_use.input.workouts)}

\* the second pass runs the second of two create_workouts invocations of the
\* response, the first having just run
SecondCreateRuns ==
    /\ pc = "ExecutingTools"
    /\ tool_idx = 2 /\ tool_idx' = 3
    /\ lastCall.kind = "create_workouts"
    /\ lastCall'.kind = "create_workouts"
    /\ lastCall.tool_use = ToolUsesOf(response.content)[1]
    /\ lastCall'.tool_use = ToolUsesOf(response.content)[2]

\* C26: within one round a later invocation observes the registry mutations
\* of an earlier one: when two create_workouts invocations of one response
\* both hold a workout named X and X is not stored yet, the first inserts X
\* and succeeds, the second reports X as a duplicate, and the workout stored
\* for X is the one of the first invocation.
C26_LaterInvocationSeesEarlier ==
    [][SecondCreateRuns =>
        \A X \in NamesOf(lastCall.tool_use) \cap NamesOf(lastCall'.tool_use) :
            ~DictHas(lastCall.before, X) =>
                /\ ~lastCall.out.raised
                /\ "is_error" \notin DOMAIN lastCall.out.result
                /\ DictHas(workouts, X)
                /\ \E i \in 1..Len(lastCall.out.result.workouts) :
                       /\ lastCall.out.result.workouts[i].workout_name = X
                       /\ DictGet(workouts, X) = lastCall.out.result.workouts[i]
                /\ lastCall'.before = workouts
                /\ ~lastCall'.out.raised
                /\ "is_error" \in DOMAIN lastCall'.out.result
                /\ lastCall'.out.result.is_error
                /\ InList(X, lastCall'.out.result.content.names)
                /\ DictGet(workouts', X) = DictGet(workouts, X)
                /\ DictGet(workouts', X) = tool_results'[1].workouts[1]]_vars

\* both invocations of a response that creates A twice have run on a
\* registry that did not hold A: A is stored as the first invocation built it
C26_Witness ==
    /\ pc = "ExecutingTools" /\ tool_idx = 3
    /\ lastCall.kind = "create_workouts"
    /\ lastCall.tool_use.input.workouts = <<PayloadA2>>
    /\ Len(tool_results) = 2
    /\ "is_error" \notin DOMAIN tool_results[1]
    /\ tool_results[2].is_error
    /\ DictGet(workouts, "A") = ConstructRunWorkout(PayloadA).value

-----------------------------------------------------------------------------
(* The shape of the workouts the create_workouts tool stores.              *)

\* the workout is what the payload asks for: one running segment, with the
\* payload's steps in their order, numbered from 1, each ended by a time
\* condition of its duration in seconds
BuiltFrom(workout, payload) ==
    /\ workout.workout_name = payload.workout_name
    /\ Len(workout.workout_segments) = 1
    /\ LET segment == workout.workout_segments[1]
           steps == segment.workout_steps IN
       /\ segment.segment_order = 1
       /\ segment.sport_type = SportTypeRunning
       /\ Len(steps) = Len(payload.steps)
       /\ \A k \in 1..Len(steps) :
              /\ steps[k].step_order = k
              /\ StepTypeValue[steps[k].step_type][1] = payload.steps[k].step_type
              /\ steps[k].end_condition.condition_type = "TIME"
              /\ steps[k].end_condition.value
                     = payload.steps[k].duration_minutes * 60

\* C27: every workout stored in the registry has exactly one segment
\* (segment_order 1, sport RUNNING) whose steps carry step_order 1, 2, ..., n
\* in list order, in the order of the steps of the create_workouts payload,
\* each with a TIME end condition of duration_minutes * 60 seconds; so the
\* step_order values of a segment are unique and ascending.
C27_StoredWorkoutShape ==
    \A i \in 1..Len(workouts) :
        LET workout == workouts[i][2]
            steps == workout.workout_segments[1].workout_steps IN
        /\ workouts[i][1] = workout.workout_name
        /\ \E payload \in Payloads : BuiltFrom(workout, payload)
        /\ \A j, k \in 1..Len(steps) :
               j < k => steps[j].step_order < steps[k].step_order

\* the workout B of three steps is stored
C27_Witness ==
    /\ DictHas(workouts, "B")
    /\ Len(DictGet(workouts, "B").workout_segments[1].workout_steps) = 3
    /\ CreateReturned

-----------------------------------------------------------------------------
(* Claude.chat in runs in which every call returns: the model call does    *)
(* not fail and no handler raises.                                         *)

\* the answers none of whose invocations makes its handler raise
ReturningResponses ==
    {r \in Responses :
        \A p \in 1..Len(r.content) : r.content[p] # InvCreateBad}

NextReturning ==
    \/ \E message \in {"plan my week"} : Chat(message)
    \/ \E r \in ReturningResponses : ModelCall(r)
    \/ ExecTool
    \/ AppendToolResults

SpecReturning == Init /\ [][NextReturning]_vars

\* the roles alternate, starting with a user turn
RolesAlternate(history) ==
    /\ history # <<>> => history[1].role = "user"
    /\ \A i \in 1..(Len(history) - 1) : history[i].role # history[i + 1].role

\* every assistant turn with tool invocations is followed by a turn of tool
\* results, and every turn of tool results follows such an assistant turn
ToolRoundsAnswered(history) ==
    \A i \in 1..Len(history) :
        /\ (history[i].kind = "response" /\ ToolUsesOf(history[i].content) # <<>>)
               => (i < Len(history) /\ history[i + 1].kind = "tool_results")
        /\ history[i].kind = "tool_results"
               => (/\ i > 1
                   /\ history[i - 1].kind = "response"
                   /\ ToolUsesOf(history[i - 1].content) # <<>>)

\* C28: after any sequence of chat calls that each return normally the
\* conversation history strictly alternates roles starting with a user turn:
\* every assistant turn that holds tool invocations is followed at once by
\* exactly one user turn of tool results, and no two user turns (a
\* tool-result turn and then the next user message) nor two assistant turns
\* are adjacent, whatever tool invocations and stop_reason the model returns.
C28_HistoryAlternates ==
    pc \in {"AwaitingUser", "Done"} =>
        /\ RolesAlternate(conversation_history)
        /\ ToolRoundsAnswered(conversation_history)

-----------------------------------------------------------------------------
(* mcp_server.py: the create_workouts tool of the MCP server, which        *)
(* uploads the workouts to Garmin Connect and schedules them.              *)

\* the lists of workouts given to the tool, a workout being its name and
\* its scheduled_date, if any
McpWorkoutLists ==
    UNION {[1..n -> [workout_name : {"A"},
                     scheduled_date : {None, "2025-06-01"}]] :
              n \in 0..MaxUpload}

\* the positions of the workouts with no scheduled_date
MissingDate(ws) == {i \in 1..Len(ws) : ws[i].scheduled_date = None}

\* what the Garmin client may do for one workout: create_workout raises, or
\* returns no workoutId, or returns one and schedule_workout returns or raises
UploadOutcomes ==
    {"create_raises", "no_id", "scheduled", "schedule_raises"}

\* create_workouts(workouts), up to the upload loop: the validation pass
McpCreateWorkouts(ws) ==
    /\ mcp.stage \in {"none", "returned"}
    /\ IF MissingDate(ws) # {}
       THEN mcp' = [stage |-> "returned", workouts |-> ws,
                    ret |-> [kind |-> "error",
                             index |-> CHOOSE i \in MissingDate(ws) :
                                           \A j \in MissingDate(ws) : i <= j],
                    uploaded |-> <<>>, scheduled_ids |-> <<>>]
       ELSE mcp' = [stage |-> "uploading", workouts |-> ws, i |-> 1,
                    results |-> <<>>, successful |-> 0, failed |-> 0,
                    scheduled |-> 0, uploaded |-> <<>>, scheduled_ids |-> <<>>]
    /\ UNCHANGED <<workouts, lastCall, chatVars, codec, heur, complete, target,
                   snapshot>>

\* one pass of the upload loop
McpUpload(outcome) ==
    /\ mcp.stage = "uploading"
    /\ mcp.i <= Len(mcp.workouts)
    /\ mcp' =
         IF outcome = "create_raises"
         THEN [mcp EXCEPT !.i = @ + 1,
                          !.results = Append(@, [mark |-> "failed", index |-> mcp.i]),
                          !.failed = @ + 1]
         ELSE IF outcome = "no_id"
         THEN [mcp EXCEPT !.i = @ + 1,
                          !.uploaded = Append(@, mcp.i),
                          !.successful = @ + 1,
                          !.results = Append(@, [mark |-> "uploaded", index |-> mcp.i])]
         ELSE IF outcome = "scheduled"
         THEN [mcp EXCEPT !.i = @ + 1,
                          !.uploaded = Append(@, mcp.i),
                          !.successful = @ + 1,
                          !.scheduled_ids = Append(@, mcp.i),
                          !.results = Append(@, [mark |-> "scheduled", index |-> mcp.i]),
                          !.scheduled = @ + 1]
         ELSE [mcp EXCEPT !.i = @ + 1,
                          !.uploaded = Append(@, mcp.i),
                          !.successful = @ + 1,
                          !.results = Append(@, [mark |-> "failed", index |-> mcp.i]),
                          !.failed = @ + 1]
    /\ UNCHANGED <<workouts, lastCall, chatVars, codec, heur, complete, target,
                   snapshot>>

\* after the loop: the summary and the result lines
McpReturn ==
    /\ mcp.stage = "uploading"
    /\ mcp.i > Len(mcp.workouts)
    /\ mcp' = [stage |-> "returned", workouts |-> mcp.workouts,
               ret |-> [kind |-> "summary", successful |-> mcp.successful,
                        of |-> Len(mcp.workouts), scheduled |-> mcp.scheduled,
                        failed |-> mcp.failed, results |-> mcp.results],
               uploaded |-> mcp.uploaded, scheduled_ids |-> mcp.scheduled_ids]
    /\ UNCHANGED <<workouts, lastCall, chatVars, codec, heur, complete, target,
                   snapshot>>

NextMcp ==
    \/ \E ws \in McpWorkoutLists : McpCreateWorkouts(ws)
    \/ \E outcome \in UploadOutcomes : McpUpload(outcome)
    \/ McpReturn

SpecMcp == Init /\ [][NextMcp]_vars

\* C29: upload accounting of the MCP create_workouts tool: when every workout
\* has a scheduled_date each workout is counted exactly once, so that at the
\* end successful + failed is the number of workouts and scheduled <=
\* successful, also when the upload succeeds and the scheduling call raises;
\* a failure on one workout does not stop the following ones.  When a workout
\* lacks its scheduled_date the call returns an error before it uploads
\* anything.
C29_UploadAccounting ==
    mcp.stage = "returned" =>
        IF MissingDate(mcp.workouts) # {}
        THEN mcp.ret.kind = "error" /\ mcp.uploaded = <<>>
        ELSE /\ mcp.ret.kind = "summary"
             /\ Len(mcp.ret.results) = Len(mcp.workouts)
             /\ \A i \in 1..Len(mcp.workouts) : mcp.ret.results[i].index = i
             /\ mcp.ret.scheduled <= mcp.ret.successful
             /\ mcp.ret.successful + mcp.ret.failed = Len(mcp.workouts)

-----------------------------------------------------------------------------
(* The pace fields on the wire, checked under SpecCodec.                   *)

\* the steps of the workout at hand and of its wire map
CodecSteps == codec.w.workout_segments[1].workout_steps

CodecWireSteps == codec.wire.workoutSegments[1].workoutSteps

\* step k holds a valid pace target: lower_bound, the faster pace, above
\* upper_bound
ValidPaceStep(k) ==
    /\ CodecSteps[k].intensity.target_type = "pace_zone"
    /\ CodecSteps[k].intensity.lower_bound > CodecSteps[k].intensity.upper_bound

\* every step type of the workout is one WorkoutParser's step_type_map knows
StepTypesDecodable ==
    \A k \in 1..Len(CodecSteps) :
        StepTypeValue[CodecSteps[k].step_type][1] \in DOMAIN StepTypeMap

\* C30: encode and decode agree on the pace fields: the encoder writes a
\* PaceZoneTarget's lower_bound to targetValueOne and its upper_bound to
\* targetValueTwo and the decoder reads them back the same way, so that a
\* pace.zone step encoded from a valid target (lower_bound > upper_bound)
\* decodes without error to a PaceZoneTarget with the same two bounds.
C30_PaceFieldsAgree ==
    (codec.stage = "decoded" /\ StepTypesDecodable) =>
        \A k \in 1..Len(CodecSteps) :
            ValidPaceStep(k) =>
                /\ CodecWireSteps[k].targetValueOne
                       = CodecSteps[k].intensity.lower_bound
                /\ CodecWireSteps[k].targetValueTwo
                       = CodecSteps[k].intensity.upper_bound
                /\ ~codec.parsed.raised
                /\ LET decoded == codec.parsed.value.workout_segments[1]
                                      .workout_steps[k].intensity IN
                   /\ decoded.target_type = "pace_zone"
                   /\ decoded.lower_bound = CodecSteps[k].intensity.lower_bound
                   /\ decoded.upper_bound = CodecSteps[k].intensity.upper_bound

=============================================================================
